---- MODULE Spec2Model ----
(***************************************************************************)
(* Shortest-path search of parte-2: Grafo (grafo.py), the bucket frontier  *)
(* ListaAbierta (abierta.py) and the two engines AlgoritmoDijkstra and     *)
(* AlgoritmoAStarConPadres (algoritmo.py), run one after the other on the  *)
(* same query as test_comparativa_aleatoria (bateria_pruebas.py) does.     *)
(*                                                                         *)
(* Numbers: edge weights and g are integers, as in the .gr files.          *)
(* Coordinates are points of one meridian, given as an integer number of   *)
(* half distance units, so that distancia_haversine, which on a meridian   *)
(* is RADIO_TIERRA * |lat1 - lat2|, is |c1 - c2| half units: a float with  *)
(* fractional part .0 or .5.  int(g + h) is then (2g + h2) \div 2.         *)
(***************************************************************************)
EXTENDS Integers, Sequences, FiniteSets, TLC

\* ------------------------------------------------------------- bounds
NumNodos == 3
MaxArcos == 3
MaxPeso == 1
MaxCoord == 2

Nodos == 1..NumNodos
Pesos == 0..MaxPeso
Coords == 0..MaxCoord

\* Python's None (no parent, no cost) and float('inf').
None == -1
Infinito == 999

VARIABLES grafo, origen, destino, dijkstra, astar,
          abierta,   \* a ListaAbierta driven directly by its callers
          ultimo,    \* the last call made on abierta, its arguments and result
          basico,    \* an AlgoritmoAStar instance, whose resolver() is called twice
          carga,     \* the progress of cargar_grafo / cargar_coordenadas over a file
          salida,    \* what parte-2.py renders from a result: the call, its text
          dial,      \* a ListaAbiertaDialOptimizada, and a Dijkstra loop run over it
          cerrados   \* a ListaCerrada, and the last reconstruir_camino call on it

vars == <<grafo, origen, destino, dijkstra, astar, abierta, ultimo, basico, carga, salida, dial, cerrados>>

\* The variables the two-engine comparison leaves alone.
otros == <<abierta, ultimo, basico, carga, salida, dial, cerrados>>

\* ------------------------------------------------------------- dict helpers
Put(d, k, v) == [x \in (DOMAIN d) \cup {k} |-> IF x = k THEN v ELSE d[x]]

Del(d, k) == [x \in (DOMAIN d) \ {k} |-> d[x]]

Get(d, k, def) == IF k \in DOMAIN d THEN d[k] ELSE def

\* Mutant: the greatest element, where min() is called for.
Maximo(S) == CHOOSE x \in S : \A y \in S : y <= x

Minimo(S) == CHOOSE x \in S : \A y \in S : x <= y

\* ------------------------------------------------------------- grafo.py
GrafoVacio == [num_vertices |-> 0, num_arcos |-> 0, adyacencia |-> <<>>, coordenadas |-> <<>>]

\* One record line "a <origen> <destino> <coste>" of the .gr file.
CargarArco(g, arco) ==
    LET o == arco[1]
        lista == Get(g.adyacencia, o, <<>>)
    IN  [g EXCEPT !.adyacencia = Put(@, o, Append(lista, <<arco[2], arco[3]>>)),
                  !.num_arcos = @ + 1]

RECURSIVE cargar_grafo(_, _)
cargar_grafo(g, lineas) ==
    IF lineas = <<>> THEN g
    ELSE cargar_grafo(CargarArco(g, Head(lineas)), Tail(lineas))

\* A line of a file after linea.strip().split(): a sequence of tokens, each a
\* sequence of characters.  int(token) accepts an optional sign followed by
\* decimal digits and raises ValueError on anything else.
Cifras == <<"0", "1", "2", "3", "4", "5", "6", "7", "8", "9">>

EsCifra(c) == \E i \in 1..Len(Cifras) : Cifras[i] = c

ValorCifra(c) == (CHOOSE i \in 1..Len(Cifras) : Cifras[i] = c) - 1

SinSigno(token) == IF token # <<>> /\ Head(token) \in {"-", "+"} THEN Tail(token) ELSE token

EsEntero(token) ==
    /\ SinSigno(token) # <<>>
    /\ \A i \in 1..Len(SinSigno(token)) : EsCifra(SinSigno(token)[i])

RECURSIVE ValorCifras(_, _)
ValorCifras(cifras, acumulado) ==
    IF cifras = <<>> THEN acumulado
    ELSE ValorCifras(Tail(cifras), 10 * acumulado + ValorCifra(Head(cifras)))

int(token) ==
    IF Head(token) = "-" THEN 0 - ValorCifras(SinSigno(token), 0)
    ELSE ValorCifras(SinSigno(token), 0)

\* One pass of the loop of cargar_grafo over a line already split.  ok is
\* FALSE when int() raises ValueError, which leaves the loop and the method.
CargarLineaGr(g, partes) ==
    IF Len(partes) >= 4 /\ partes[1] = <<"a">>
    THEN IF EsEntero(partes[2]) /\ EsEntero(partes[3]) /\ EsEntero(partes[4])
         THEN [ok |-> TRUE,
               grafo |-> CargarArco(g, <<int(partes[2]), int(partes[3]), int(partes[4])>>)]
         ELSE [ok |-> FALSE, grafo |-> g]
    ELSE [ok |-> TRUE, grafo |-> g]

\* One pass of the loop of cargar_coordenadas.  The coordinates are kept as
\* (latitud, longitud) in the millionths of a degree of the file.
CargarLineaCo(g, partes) ==
    IF Len(partes) >= 4 /\ partes[1] = <<"v">>
    THEN IF EsEntero(partes[2]) /\ EsEntero(partes[3]) /\ EsEntero(partes[4])
         THEN [ok |-> TRUE,
               grafo |-> [g EXCEPT !.coordenadas = Put(@, int(partes[2]),
                                                        <<int(partes[4]), int(partes[3])>>),
                                   !.num_vertices = @ + 1]]
         ELSE [ok |-> FALSE, grafo |-> g]
    ELSE [ok |-> TRUE, grafo |-> g]

obtener_sucesores(vertice) == Get(grafo.adyacencia, vertice, <<>>)

\* Mutant: the lookup creates an empty list for a vertex without one
\* (setdefault instead of get).
AdyacenciaConClave(adyacencia, vertices) ==
    [v \in (DOMAIN adyacencia) \cup vertices |-> Get(adyacencia, v, <<>>)]

\* The adjacency mapping once obtener_sucesores has been called for the
\* given vertices: dict.get(vertice, []) adds no key.
AdyacenciaTrasConsulta(adyacencia, vertices) == adyacencia

existe_vertice(vertice) == vertice \in DOMAIN grafo.coordenadas

Abs(x) == IF x < 0 THEN -x ELSE x

\* Defined only when both vertices have coordinates (KeyError otherwise);
\* the result is in half units.
distancia_haversine(v1, v2) == Abs(grafo.coordenadas[v1] - grafo.coordenadas[v2])

\* ------------------------------------------------------------- abierta.py
\* Mutant: min_f starts at 0 instead of float('inf').
ListaAbiertaDesdeCero ==
    [buckets |-> <<>>, entrada |-> <<>>, min_f |-> 0, num_elementos |-> 0]

ListaAbiertaVacia ==
    [buckets |-> <<>>, entrada |-> <<>>, min_f |-> Infinito, num_elementos |-> 0]

\* Mutant: the key of an entry leaves g out.
EnteroSinG(g, h) == h \div 2

\* int(g + h), h in half units.
Entero(g, h) == (2 * g + h) \div 2

\* Mutant: a vertex already in the list is never updated.
insertar_sin_mejora(L, nodo, g, h) ==
    LET f == Entero(g, h)
    IN  IF nodo \in DOMAIN L.entrada
        THEN L
        ELSE [buckets |-> Put(L.buckets, f, Append(Get(L.buckets, f, <<>>), <<nodo, g>>)),
              entrada |-> Put(L.entrada, nodo, <<f, g>>),
              num_elementos |-> L.num_elementos + 1,
              min_f |-> IF f < L.min_f THEN f ELSE L.min_f]

\* Mutant: the comparison with the recorded g is "<" instead of "<=", so a
\* tie replaces the earlier entry.
insertar_empate_reemplaza(L, nodo, g, h) ==
    LET f == Entero(g, h)
        existe == nodo \in DOMAIN L.entrada
    IN  IF existe /\ L.entrada[nodo][2] < g
        THEN L
        ELSE [buckets |-> Put(L.buckets, f, Append(Get(L.buckets, f, <<>>), <<nodo, g>>)),
              entrada |-> Put(L.entrada, nodo, <<f, g>>),
              num_elementos |-> (IF existe THEN L.num_elementos - 1 ELSE L.num_elementos) + 1,
              min_f |-> IF f < L.min_f THEN f ELSE L.min_f]

\* Mutant: min_f is not lowered by an insertion.
insertar_sin_minimo(L, nodo, g, h) ==
    LET f == Entero(g, h)
        existe == nodo \in DOMAIN L.entrada
    IN  IF existe /\ L.entrada[nodo][2] <= g
        THEN L
        ELSE [buckets |-> Put(L.buckets, f, Append(Get(L.buckets, f, <<>>), <<nodo, g>>)),
              entrada |-> Put(L.entrada, nodo, <<f, g>>),
              num_elementos |-> (IF existe THEN L.num_elementos - 1 ELSE L.num_elementos) + 1,
              min_f |-> L.min_f]

\* Mutant: num_elementos is not decremented when an entry is superseded.
insertar_cuenta_doble(L, nodo, g, h) ==
    LET f == Entero(g, h)
        existe == nodo \in DOMAIN L.entrada
    IN  IF existe /\ L.entrada[nodo][2] <= g
        THEN L
        ELSE [buckets |-> Put(L.buckets, f, Append(Get(L.buckets, f, <<>>), <<nodo, g>>)),
              entrada |-> Put(L.entrada, nodo, <<f, g>>),
              num_elementos |-> L.num_elementos + 1,
              min_f |-> IF f < L.min_f THEN f ELSE L.min_f]

\* Mutant: an improved vertex gets its new bucket record, but entrada keeps
\* the superseded (f, g).
insertar_sin_registro(L, nodo, g, h) ==
    LET f == Entero(g, h)
        existe == nodo \in DOMAIN L.entrada
    IN  IF existe /\ L.entrada[nodo][2] <= g
        THEN L
        ELSE [buckets |-> Put(L.buckets, f, Append(Get(L.buckets, f, <<>>), <<nodo, g>>)),
              entrada |-> IF existe THEN L.entrada ELSE Put(L.entrada, nodo, <<f, g>>),
              num_elementos |-> (IF existe THEN L.num_elementos - 1 ELSE L.num_elementos) + 1,
              min_f |-> IF f < L.min_f THEN f ELSE L.min_f]

\* Mutant: the key of the entry is g, h is left out.
insertar_sin_h(L, nodo, g, h) ==
    LET f == g
        existe == nodo \in DOMAIN L.entrada
    IN  IF existe /\ L.entrada[nodo][2] <= g
        THEN L
        ELSE [buckets |-> Put(L.buckets, f, Append(Get(L.buckets, f, <<>>), <<nodo, g>>)),
              entrada |-> Put(L.entrada, nodo, <<f, g>>),
              num_elementos |-> (IF existe THEN L.num_elementos - 1 ELSE L.num_elementos) + 1,
              min_f |-> IF f < L.min_f THEN f ELSE L.min_f]

insertar(L, nodo, g, h) ==
    LET f == Entero(g, h)
        existe == nodo \in DOMAIN L.entrada
    IN  IF existe /\ L.entrada[nodo][2] <= g
        THEN L
        ELSE [buckets |-> Put(L.buckets, f, Append(Get(L.buckets, f, <<>>), <<nodo, g>>)),
              entrada |-> Put(L.entrada, nodo, <<f, g>>),
              num_elementos |-> (IF existe THEN L.num_elementos - 1 ELSE L.num_elementos) + 1,
              min_f |-> IF f < L.min_f THEN f ELSE L.min_f]

\* Mutant: a popped record counts as valid when its vertex is recorded with
\* the key of the bucket, whatever its g.
RECURSIVE VaciarBucketSinG(_, _)
VaciarBucketSinG(bucket, L) ==
    IF bucket = <<>>
    THEN [hallado |-> FALSE, nodo |-> None, g |-> None, bucket |-> <<>>]
    ELSE LET nodo == Head(bucket)[1]
             g == Head(bucket)[2]
         IN  IF /\ nodo \in DOMAIN L.entrada
                /\ L.entrada[nodo][1] = L.min_f
             THEN [hallado |-> TRUE, nodo |-> nodo, g |-> g, bucket |-> Tail(bucket)]
             ELSE VaciarBucketSinG(Tail(bucket), L)

\* Mutant: the deque is popped from the right, last in first out.
RECURSIVE VaciarBucketPorElFinal(_, _)
VaciarBucketPorElFinal(bucket, L) ==
    IF bucket = <<>>
    THEN [hallado |-> FALSE, nodo |-> None, g |-> None, bucket |-> <<>>]
    ELSE LET nodo == bucket[Len(bucket)][1]
             g == bucket[Len(bucket)][2]
             resto == SubSeq(bucket, 1, Len(bucket) - 1)
         IN  IF /\ nodo \in DOMAIN L.entrada
                /\ L.entrada[nodo][1] = L.min_f
                /\ L.entrada[nodo][2] = g
             THEN [hallado |-> TRUE, nodo |-> nodo, g |-> g, bucket |-> resto]
             ELSE VaciarBucketPorElFinal(resto, L)

\* Mutant: the first record popped is returned without looking at entrada.
VaciarBucketSinValidar(bucket, L) ==
    IF bucket = <<>>
    THEN [hallado |-> FALSE, nodo |-> None, g |-> None, bucket |-> <<>>]
    ELSE [hallado |-> TRUE, nodo |-> Head(bucket)[1], g |-> Head(bucket)[2],
          bucket |-> Tail(bucket)]

\* The inner loop "while bucket": pops entries until a valid one is found.
RECURSIVE VaciarBucket(_, _)
VaciarBucket(bucket, L) ==
    IF bucket = <<>>
    THEN [hallado |-> FALSE, nodo |-> None, g |-> None, bucket |-> <<>>]
    ELSE LET nodo == Head(bucket)[1]
             g == Head(bucket)[2]
         IN  IF /\ nodo \in DOMAIN L.entrada
                /\ L.entrada[nodo][1] = L.min_f
                /\ L.entrada[nodo][2] = g
             THEN [hallado |-> TRUE, nodo |-> nodo, g |-> g, bucket |-> Tail(bucket)]
             ELSE VaciarBucket(Tail(bucket), L)

\* The outer loop "while self.min_f in self.buckets or self.min_f < inf".
\* res is <<nodo, g>>, or <<>> for None.
RECURSIVE BuscarMinimo(_)
BuscarMinimo(L) ==
    IF ~(L.min_f \in DOMAIN L.buckets \/ L.min_f < Infinito)
    THEN [res |-> <<>>, lista |-> L]
    ELSE IF L.min_f \notin DOMAIN L.buckets /\ DOMAIN L.buckets = {}
    THEN [res |-> <<>>, lista |-> L]
    ELSE LET mf == IF L.min_f \notin DOMAIN L.buckets
                   THEN Minimo(DOMAIN L.buckets) ELSE L.min_f
             L1 == [L EXCEPT !.min_f = mf]
             r == VaciarBucket(L1.buckets[mf], L1)
             resto == Del(L1.buckets, mf)
         IN  IF r.hallado
             THEN [res |-> <<r.nodo, r.g>>,
                   lista |-> [L1 EXCEPT !.buckets = Put(@, mf, r.bucket),
                                        !.entrada = Del(@, r.nodo),
                                        !.num_elementos = @ - 1]]
             ELSE IF DOMAIN resto # {}
             THEN BuscarMinimo([L1 EXCEPT !.buckets = resto,
                                          !.min_f = Minimo(DOMAIN resto)])
             ELSE [res |-> <<>>,
                   lista |-> [L1 EXCEPT !.buckets = resto, !.min_f = Infinito]]

extraer_minimo(L) ==
    IF L.num_elementos = 0 THEN [res |-> <<>>, lista |-> L] ELSE BuscarMinimo(L)

esta_vacia(L) == L.num_elementos = 0

contiene(L, nodo) == nodo \in DOMAIN L.entrada

obtener_g(L, nodo) == IF nodo \in DOMAIN L.entrada THEN L.entrada[nodo][2] ELSE None

\* __len__
Longitud(L) == L.num_elementos

\* --- ListaAbiertaDialOptimizada: a circular array of C + 1 sets.
\* Mutant: the array has C slots instead of C + 1.
ListaDialCorta(coste_maximo_arco) ==
    [C |-> coste_maximo_arco, tamanio |-> coste_maximo_arco,
     buckets |-> [i \in 0..(coste_maximo_arco - 1) |-> {}],
     entrada |-> <<>>, puntero |-> 0, num_elementos |-> 0]

ListaDialNueva(coste_maximo_arco) ==
    [C |-> coste_maximo_arco, tamanio |-> coste_maximo_arco + 1,
     buckets |-> [i \in 0..coste_maximo_arco |-> {}],
     entrada |-> <<>>, puntero |-> 0, num_elementos |-> 0]

\* Mutant: an improved vertex is not discarded from the slot of its old key.
dial_insertar_sin_descartar(L, nodo, g, h) ==
    LET f == Entero(g, h)
        existe == nodo \in DOMAIN L.entrada
        indice == f % L.tamanio
    IN  IF existe /\ L.entrada[nodo][2] <= g
        THEN L
        ELSE [L EXCEPT !.buckets = [@ EXCEPT ![indice] = @ \cup {nodo}],
                       !.entrada = Put(@, nodo, <<f, g>>),
                       !.num_elementos = (IF existe THEN @ - 1 ELSE @) + 1]

dial_insertar(L, nodo, g, h) ==
    LET f == Entero(g, h)
        existe == nodo \in DOMAIN L.entrada
        quitado == IF existe
                   THEN [L.buckets EXCEPT ![L.entrada[nodo][1] % L.tamanio] = @ \ {nodo}]
                   ELSE L.buckets
        indice == f % L.tamanio
    IN  IF existe /\ L.entrada[nodo][2] <= g
        THEN L
        ELSE [L EXCEPT !.buckets = [quitado EXCEPT ![indice] = @ \cup {nodo}],
                       !.entrada = Put(@, nodo, <<f, g>>),
                       !.num_elementos = (IF existe THEN @ - 1 ELSE @) + 1]

\* The loop "for _ in range(self.tamanio)" with k passes left: the list with
\* puntero on the first slot that is not empty, if there is one.
RECURSIVE DialAvanzar(_, _)
DialAvanzar(L, k) ==
    IF k = 0 \/ L.buckets[L.puntero] # {} THEN L
    ELSE DialAvanzar([L EXCEPT !.puntero = (@ + 1) % L.tamanio], k - 1)

\* The outcomes of extraer_minimo: set.pop() takes any element of the slot.
\* res is <<nodo, g>>, or <<>> for None.
dial_extraer_minimo(L) ==
    IF L.num_elementos = 0 THEN {[res |-> <<>>, lista |-> L]}
    ELSE LET L1 == DialAvanzar(L, L.tamanio)
         IN  IF L1.buckets[L1.puntero] = {} THEN {[res |-> <<>>, lista |-> L1]}
             ELSE {[res |-> <<nodo, L1.entrada[nodo][2]>>,
                    lista |-> [L1 EXCEPT !.buckets = [@ EXCEPT ![L1.puntero] = @ \ {nodo}],
                                         !.entrada = Del(@, nodo),
                                         !.num_elementos = @ - 1]] :
                        nodo \in L1.buckets[L1.puntero]}

dial_esta_vacia(L) == L.num_elementos = 0

\* ------------------------------------------------------------- algoritmo.py
\* An engine after __init__; the locals of resolver() are fields of the same
\* record.  pc: "creado" (constructed), "bucle" (at the head of the while
\* loop), "SOLVED" (returned (camino, coste)), "EXHAUSTED" (returned
\* (None, None); camino is then <<>>), "KeyError" (raised by a coordinate
\* lookup).
AlgoritmoNuevo ==
    [expansiones |-> 0, coste_optimo |-> None, pc |-> "creado",
     abierta |-> ListaAbiertaVacia, g_minimo |-> <<>>, padres |-> <<>>,
     cerrada |-> {}, camino |-> <<>>, coste |-> None]

Invertir(s) == [i \in 1..Len(s) |-> s[Len(s) + 1 - i]]

RECURSIVE Remontar(_, _, _)
Remontar(padres, nodo_actual, camino) ==
    IF nodo_actual = None THEN camino
    ELSE Remontar(padres, padres[nodo_actual][1],
                  Append(camino, <<nodo_actual, padres[nodo_actual][2]>>))

\* Mutant: the list built from the target back to the origin is not reversed.
reconstruir_sin_invertir(padres, nodo_objetivo) == Remontar(padres, nodo_objetivo, <<>>)

\* Mutant: the walk stops at the vertex whose parent is None without adding it.
reconstruir_sin_origen(padres, nodo_objetivo) ==
    Tail(Invertir(Remontar(padres, nodo_objetivo, <<>>)))

\* Mutant: the walk starts at the parent of the target.
reconstruir_sin_objetivo(padres, nodo_objetivo) ==
    Invertir(Remontar(padres, padres[nodo_objetivo][1], <<>>))

reconstruir_camino(padres, nodo_objetivo) == Invertir(Remontar(padres, nodo_objetivo, <<>>))

Retorno(alg, camino, coste) == [alg EXCEPT !.pc = IF camino = <<>> THEN "EXHAUSTED" ELSE "SOLVED",
                                            !.camino = camino, !.coste = coste]

\* --- AlgoritmoDijkstra
\* Mutant: no closed test, and a path of equal cost counts as better, so a
\* closed vertex can be inserted again.
RECURSIVE DijkstraSucesoresReabre(_, _, _, _)
DijkstraSucesoresReabre(alg, nodo_actual, g_actual, sucesores) ==
    IF sucesores = <<>> THEN alg
    ELSE LET sucesor == Head(sucesores)[1]
             coste_arco == Head(sucesores)[2]
             g_sucesor == g_actual + coste_arco
         IN  IF g_sucesor <= Get(alg.g_minimo, sucesor, Infinito)
             THEN DijkstraSucesoresReabre(
                      [alg EXCEPT !.g_minimo = Put(@, sucesor, g_sucesor),
                                  !.padres = Put(@, sucesor, <<nodo_actual, coste_arco>>),
                                  !.abierta = insertar(@, sucesor, g_sucesor, 0)],
                      nodo_actual, g_actual, Tail(sucesores))
             ELSE DijkstraSucesoresReabre(alg, nodo_actual, g_actual, Tail(sucesores))

\* Mutant: a cheaper path updates g_minimo but keeps the parent first recorded.
RECURSIVE DijkstraSucesoresSinPadre(_, _, _, _)
DijkstraSucesoresSinPadre(alg, nodo_actual, g_actual, sucesores) ==
    IF sucesores = <<>> THEN alg
    ELSE LET sucesor == Head(sucesores)[1]
             coste_arco == Head(sucesores)[2]
             g_sucesor == g_actual + coste_arco
         IN  IF sucesor \in alg.cerrada
             THEN DijkstraSucesoresSinPadre(alg, nodo_actual, g_actual, Tail(sucesores))
             ELSE IF g_sucesor < Get(alg.g_minimo, sucesor, Infinito)
             THEN DijkstraSucesoresSinPadre(
                      [alg EXCEPT !.g_minimo = Put(@, sucesor, g_sucesor),
                                  !.padres = IF sucesor \in DOMAIN @ THEN @
                                             ELSE Put(@, sucesor, <<nodo_actual, coste_arco>>),
                                  !.abierta = insertar(@, sucesor, g_sucesor, 0)],
                      nodo_actual, g_actual, Tail(sucesores))
             ELSE DijkstraSucesoresSinPadre(alg, nodo_actual, g_actual, Tail(sucesores))

RECURSIVE DijkstraSucesores(_, _, _, _)
DijkstraSucesores(alg, nodo_actual, g_actual, sucesores) ==
    IF sucesores = <<>> THEN alg
    ELSE LET sucesor == Head(sucesores)[1]
             coste_arco == Head(sucesores)[2]
             g_sucesor == g_actual + coste_arco
         IN  IF sucesor \in alg.cerrada
             THEN DijkstraSucesores(alg, nodo_actual, g_actual, Tail(sucesores))
             ELSE IF g_sucesor < Get(alg.g_minimo, sucesor, Infinito)
             THEN DijkstraSucesores(
                      [alg EXCEPT !.g_minimo = Put(@, sucesor, g_sucesor),
                                  !.padres = Put(@, sucesor, <<nodo_actual, coste_arco>>),
                                  !.abierta = insertar(@, sucesor, g_sucesor, 0)],
                      nodo_actual, g_actual, Tail(sucesores))
             ELSE DijkstraSucesores(alg, nodo_actual, g_actual, Tail(sucesores))

DijkstraPreparar(alg) ==
    [alg EXCEPT !.abierta = insertar(ListaAbiertaVacia, origen, 0, 0),
                !.g_minimo = Put(<<>>, origen, 0),
                !.padres = Put(<<>>, origen, <<None, 0>>),
                !.cerrada = {},
                !.pc = "bucle"]

\* One pass of the while loop, from its test to the next test or a return.
DijkstraPaso(alg) ==
    IF esta_vacia(alg.abierta) THEN Retorno(alg, <<>>, None)
    ELSE LET r == extraer_minimo(alg.abierta)
             a1 == [alg EXCEPT !.abierta = r.lista]
         IN  IF r.res = <<>> THEN Retorno(a1, <<>>, None)
             ELSE LET nodo_actual == r.res[1]
                      g_actual == r.res[2]
                      a2 == [a1 EXCEPT !.expansiones = @ + 1,
                                       !.cerrada = @ \cup {nodo_actual}]
                  IN  IF nodo_actual \in a1.cerrada THEN a1
                      ELSE IF g_actual > Get(a1.g_minimo, nodo_actual, Infinito) THEN a1
                      ELSE IF nodo_actual = destino
                      THEN Retorno([a2 EXCEPT !.coste_optimo = g_actual],
                                   reconstruir_camino(a2.padres, nodo_actual), g_actual)
                      ELSE DijkstraSucesores(a2, nodo_actual, g_actual,
                                             obtener_sucesores(nodo_actual))

\* --- AlgoritmoAStarConPadres
\* heuristica(nodo) raises KeyError unless nodo and destino have coordinates.
TieneHeuristica(nodo) == existe_vertice(nodo) /\ existe_vertice(destino)

heuristica(nodo) == distancia_haversine(nodo, destino)

\* Mutant: the test "if sucesor in cerrada: continue" is missing.
RECURSIVE AStarSucesoresSinCerrada(_, _, _, _)
AStarSucesoresSinCerrada(alg, nodo_actual, g_actual, sucesores) ==
    IF sucesores = <<>> THEN alg
    ELSE LET sucesor == Head(sucesores)[1]
             coste_arco == Head(sucesores)[2]
             g_sucesor == g_actual + coste_arco
             a1 == [alg EXCEPT !.g_minimo = Put(@, sucesor, g_sucesor),
                               !.padres = Put(@, sucesor, <<nodo_actual, coste_arco>>)]
         IN  IF g_sucesor < Get(alg.g_minimo, sucesor, Infinito)
             THEN IF TieneHeuristica(sucesor)
                  THEN AStarSucesoresSinCerrada(
                           [a1 EXCEPT !.abierta = insertar(@, sucesor, g_sucesor,
                                                           heuristica(sucesor))],
                           nodo_actual, g_actual, Tail(sucesores))
                  ELSE [a1 EXCEPT !.pc = "KeyError"]
             ELSE AStarSucesoresSinCerrada(alg, nodo_actual, g_actual, Tail(sucesores))

RECURSIVE AStarSucesores(_, _, _, _)
AStarSucesores(alg, nodo_actual, g_actual, sucesores) ==
    IF sucesores = <<>> THEN alg
    ELSE LET sucesor == Head(sucesores)[1]
             coste_arco == Head(sucesores)[2]
             g_sucesor == g_actual + coste_arco
             a1 == [alg EXCEPT !.g_minimo = Put(@, sucesor, g_sucesor),
                               !.padres = Put(@, sucesor, <<nodo_actual, coste_arco>>)]
         IN  IF sucesor \in alg.cerrada
             THEN AStarSucesores(alg, nodo_actual, g_actual, Tail(sucesores))
             ELSE IF g_sucesor < Get(alg.g_minimo, sucesor, Infinito)
             THEN IF TieneHeuristica(sucesor)
                  THEN AStarSucesores(
                           [a1 EXCEPT !.abierta = insertar(@, sucesor, g_sucesor,
                                                           heuristica(sucesor))],
                           nodo_actual, g_actual, Tail(sucesores))
                  ELSE [a1 EXCEPT !.pc = "KeyError"]
             ELSE AStarSucesores(alg, nodo_actual, g_actual, Tail(sucesores))

AStarPreparar(alg) ==
    LET a1 == [alg EXCEPT !.g_minimo = Put(<<>>, origen, 0),
                          !.padres = Put(<<>>, origen, <<None, 0>>),
                          !.cerrada = {}]
    IN  IF TieneHeuristica(origen)
        THEN [a1 EXCEPT !.abierta = insertar(ListaAbiertaVacia, origen, 0, heuristica(origen)),
                        !.pc = "bucle"]
        ELSE [a1 EXCEPT !.pc = "KeyError"]

\* Mutant: the stale-entry test is "g_actual >= g_minimo" instead of ">".
AStarPasoEstricto(alg) ==
    IF esta_vacia(alg.abierta) THEN Retorno(alg, <<>>, None)
    ELSE LET r == extraer_minimo(alg.abierta)
             a1 == [alg EXCEPT !.abierta = r.lista]
         IN  IF r.res = <<>> THEN Retorno(a1, <<>>, None)
             ELSE LET nodo_actual == r.res[1]
                      g_actual == r.res[2]
                      a2 == [a1 EXCEPT !.expansiones = @ + 1,
                                       !.cerrada = @ \cup {nodo_actual}]
                  IN  IF nodo_actual \in a1.cerrada THEN a1
                      ELSE IF g_actual >= Get(a1.g_minimo, nodo_actual, Infinito) THEN a1
                      ELSE IF nodo_actual = destino
                      THEN Retorno([a2 EXCEPT !.coste_optimo = g_actual],
                                   reconstruir_camino(a2.padres, nodo_actual), g_actual)
                      ELSE AStarSucesores(a2, nodo_actual, g_actual,
                                          obtener_sucesores(nodo_actual))

AStarPaso(alg) ==
    IF esta_vacia(alg.abierta) THEN Retorno(alg, <<>>, None)
    ELSE LET r == extraer_minimo(alg.abierta)
             a1 == [alg EXCEPT !.abierta = r.lista]
         IN  IF r.res = <<>> THEN Retorno(a1, <<>>, None)
             ELSE LET nodo_actual == r.res[1]
                      g_actual == r.res[2]
                      a2 == [a1 EXCEPT !.expansiones = @ + 1,
                                       !.cerrada = @ \cup {nodo_actual}]
                  IN  IF nodo_actual \in a1.cerrada THEN a1
                      ELSE IF g_actual > Get(a1.g_minimo, nodo_actual, Infinito) THEN a1
                      ELSE IF nodo_actual = destino
                      THEN Retorno([a2 EXCEPT !.coste_optimo = g_actual],
                                   reconstruir_camino(a2.padres, nodo_actual), g_actual)
                      ELSE AStarSucesores(a2, nodo_actual, g_actual,
                                          obtener_sucesores(nodo_actual))

\* --- the loop of AlgoritmoDijkstra.resolver over a ListaAbiertaDialOptimizada
\* in the place of ListaAbierta.  claves are the keys of the vertices its
\* extraer_minimo returned, claves_abierta those returned to the run of
\* AlgoritmoDijkstra over ListaAbierta on the same query.
DialNuevo(coste_maximo_arco) ==
    [lista |-> ListaDialNueva(coste_maximo_arco), pc |-> "creado", expansiones |-> 0,
     coste_optimo |-> None, g_minimo |-> <<>>, padres |-> <<>>, cerrada |-> {},
     camino |-> <<>>, coste |-> None, claves |-> <<>>, claves_abierta |-> <<>>]

RECURSIVE DialSucesores(_, _, _, _)
DialSucesores(alg, nodo_actual, g_actual, sucesores) ==
    IF sucesores = <<>> THEN alg
    ELSE LET sucesor == Head(sucesores)[1]
             coste_arco == Head(sucesores)[2]
             g_sucesor == g_actual + coste_arco
         IN  IF sucesor \in alg.cerrada
             THEN DialSucesores(alg, nodo_actual, g_actual, Tail(sucesores))
             ELSE IF g_sucesor < Get(alg.g_minimo, sucesor, Infinito)
             THEN DialSucesores(
                      [alg EXCEPT !.g_minimo = Put(@, sucesor, g_sucesor),
                                  !.padres = Put(@, sucesor, <<nodo_actual, coste_arco>>),
                                  !.lista = dial_insertar(@, sucesor, g_sucesor, 0)],
                      nodo_actual, g_actual, Tail(sucesores))
             ELSE DialSucesores(alg, nodo_actual, g_actual, Tail(sucesores))

DialPreparar(alg) ==
    [alg EXCEPT !.lista = dial_insertar(@, origen, 0, 0),
                !.g_minimo = Put(<<>>, origen, 0),
                !.padres = Put(<<>>, origen, <<None, 0>>),
                !.cerrada = {},
                !.pc = "bucle"]

DialRetorno(alg, camino, coste) ==
    [alg EXCEPT !.pc = IF camino = <<>> THEN "EXHAUSTED" ELSE "SOLVED",
                !.camino = camino, !.coste = coste]

\* One pass of the while loop after extraer_minimo gave r.
DialPasoCon(alg, r) ==
    LET a1 == [alg EXCEPT !.lista = r.lista]
    IN  IF r.res = <<>> THEN DialRetorno(a1, <<>>, None)
        ELSE LET nodo_actual == r.res[1]
                 g_actual == r.res[2]
                 e == alg.lista.entrada
                 a2 == [a1 EXCEPT !.expansiones = @ + 1,
                                  !.cerrada = @ \cup {nodo_actual},
                                  !.claves = Append(@, e[nodo_actual][1])]
             IN  IF nodo_actual \in a1.cerrada THEN a1
                 ELSE IF g_actual > Get(a1.g_minimo, nodo_actual, Infinito) THEN a1
                 ELSE IF nodo_actual = destino
                 THEN DialRetorno([a2 EXCEPT !.coste_optimo = g_actual],
                                  reconstruir_camino(a2.padres, nodo_actual), g_actual)
                 ELSE DialSucesores(a2, nodo_actual, g_actual,
                                    obtener_sucesores(nodo_actual))

\* The outcomes of one pass of the loop, from its test to the next test or a
\* return.
DialPaso(alg) ==
    IF dial_esta_vacia(alg.lista) THEN {DialRetorno(alg, <<>>, None)}
    ELSE {DialPasoCon(alg, r) : r \in dial_extraer_minimo(alg.lista)}

\* ------------------------------------------------------------ cerrada.py
\* ListaCerrada: cerrados maps a vertex to <<padre, coste_arco, g>>.  The
\* other fields keep the calls made: how many insertar calls, and the last
\* reconstruir_camino call with its target and what became of it.
ListaCerradaVacia ==
    [cerrados |-> <<>>, n |-> 0, op |-> "ninguna", objetivo |-> None,
     camino |-> <<>>, pc |-> "reposo"]

cerrada_insertar(cerrados_, nodo, padre, coste_arco, g) ==
    Put(cerrados_, nodo, <<padre, coste_arco, g>>)

obtener_padre(cerrados_, nodo) ==
    IF nodo \in DOMAIN cerrados_ THEN cerrados_[nodo][1] ELSE None

obtener_coste_arco(cerrados_, nodo) ==
    IF nodo \in DOMAIN cerrados_ THEN cerrados_[nodo][2] ELSE 0

\* The while loop of reconstruir_camino with k passes left; fin tells whether
\* it reached "nodo_actual is None".
RECURSIVE RemontarCerrada(_, _, _, _)
RemontarCerrada(cerrados_, nodo_actual, camino, k) ==
    IF nodo_actual = None THEN [fin |-> TRUE, camino |-> camino]
    ELSE IF k = 0 THEN [fin |-> FALSE, camino |-> camino]
    ELSE RemontarCerrada(cerrados_, obtener_padre(cerrados_, nodo_actual),
                         Append(camino, <<nodo_actual,
                                         obtener_coste_arco(cerrados_, nodo_actual)>>),
                         k - 1)

\* reconstruir_camino: a walk that is still going after one pass more than
\* there are recorded vertices is in a cycle of parent links and never ends.
cerrada_reconstruir_camino(cerrados_, nodo_objetivo) ==
    LET r == RemontarCerrada(cerrados_, nodo_objetivo, <<>>,
                             Cardinality(DOMAIN cerrados_) + 1)
    IN  IF r.fin THEN [pc |-> "devuelto", camino |-> Invertir(r.camino)]
        ELSE [pc |-> "sin_fin", camino |-> <<>>]

\* --- AlgoritmoAStar: the frontier is self.abierta, created by __init__ and
\* used by every resolver() call of the instance; g_minimo, padres and cerrada
\* are locals of the call, expansiones is a counter of the instance.
BasicoPreparar(alg) ==
    LET a1 == [alg EXCEPT !.g_minimo = Put(<<>>, origen, 0),
                          !.padres = Put(<<>>, origen, <<None, 0>>),
                          !.cerrada = {},
                          !.camino = <<>>,
                          !.coste = None]
    IN  IF TieneHeuristica(origen)
        THEN [a1 EXCEPT !.abierta = insertar(alg.abierta, origen, 0, heuristica(origen)),
                        !.pc = "bucle"]
        ELSE [a1 EXCEPT !.pc = "KeyError"]

\* Lines 364-374 are the statements of lines 140-154.
BasicoSucesores(alg, nodo_actual, g_actual, sucesores) ==
    AStarSucesores(alg, nodo_actual, g_actual, sucesores)

\* Whether _reconstruir_camino finds padres[nodo_actual] at every step.
RECURSIVE CaminoDefinido(_, _)
CaminoDefinido(padres, nodo_actual) ==
    \/ nodo_actual = None
    \/ /\ nodo_actual \in DOMAIN padres
       /\ CaminoDefinido(padres, padres[nodo_actual][1])

BasicoPaso(alg) ==
    IF esta_vacia(alg.abierta) THEN Retorno(alg, <<>>, None)
    ELSE LET r == extraer_minimo(alg.abierta)
             a1 == [alg EXCEPT !.abierta = r.lista]
         IN  IF r.res = <<>> THEN Retorno(a1, <<>>, None)
             ELSE LET nodo_actual == r.res[1]
                      g_actual == r.res[2]
                      a2 == [a1 EXCEPT !.expansiones = @ + 1,
                                       !.cerrada = @ \cup {nodo_actual}]
                  IN  IF nodo_actual \in a1.cerrada THEN a1
                      ELSE IF g_actual > Get(a1.g_minimo, nodo_actual, Infinito) THEN a1
                      ELSE IF nodo_actual = destino
                      THEN IF CaminoDefinido(a2.padres, nodo_actual)
                           THEN Retorno([a2 EXCEPT !.coste_optimo = g_actual],
                                        reconstruir_camino(a2.padres, nodo_actual), g_actual)
                           ELSE [a2 EXCEPT !.coste_optimo = g_actual, !.pc = "KeyError"]
                      ELSE BasicoSucesores(a2, nodo_actual, g_actual,
                                           obtener_sucesores(nodo_actual))

\* ------------------------------------------------------------- the runs
Terminado(alg) == alg.pc \in {"SOLVED", "EXHAUSTED", "KeyError"}

\* The vertices whose successors a pass of the loop asked for: the vertex it
\* closed, unless that was the destination (the pass returns before line 140).
Consultados(antes, despues) == (despues.cerrada \ antes.cerrada) \ {destino}

GrafoTrasPaso(antes, despues) ==
    [grafo EXCEPT !.adyacencia = AdyacenciaTrasConsulta(@, Consultados(antes, despues))]

DijkstraInicio ==
    /\ dijkstra.pc = "creado"
    /\ dijkstra' = DijkstraPreparar(dijkstra)
    /\ UNCHANGED <<grafo, origen, destino, astar, otros>>

DijkstraIteracion ==
    /\ dijkstra.pc = "bucle"
    /\ dijkstra' = DijkstraPaso(dijkstra)
    /\ grafo' = GrafoTrasPaso(dijkstra, dijkstra')
    /\ UNCHANGED <<origen, destino, astar, otros>>

\* astar.resolver() is called once dijkstra.resolver() has returned.
AStarInicio ==
    /\ Terminado(dijkstra)
    /\ astar.pc = "creado"
    /\ astar' = AStarPreparar(astar)
    /\ UNCHANGED <<grafo, origen, destino, dijkstra, otros>>

AStarIteracion ==
    /\ astar.pc = "bucle"
    /\ astar' = AStarPaso(astar)
    /\ grafo' = GrafoTrasPaso(astar, astar')
    /\ UNCHANGED <<origen, destino, dijkstra, otros>>

\* The .gr files drawn: at most MaxArcos record lines, grouped by source
\* vertex (the order of the lines of one source is the order of its list).
Arcos == Nodos \X Nodos \X Pesos

Agrupado(lineas) == \A i \in 1..(Len(lineas) - 1) : lineas[i][1] <= lineas[i + 1][1]

Ficheros == {l \in UNION {[1..n -> Arcos] : n \in 0..MaxArcos} : Agrupado(l)}

Coordenadas == UNION {[S -> Coords] : S \in SUBSET Nodos}

\* The variables of the other specifications, at rest.
SinLlamada == [op |-> "ninguna", nodo |-> None, g |-> None, h |-> None,
               res |-> <<>>, antes |-> ListaAbiertaVacia, n |-> 0]

BasicoNuevo == [alg |-> AlgoritmoNuevo, llamadas |-> 0, primera |-> AlgoritmoNuevo]

SinCarga == [pc |-> "inactiva", fichero |-> "", partes |-> <<>>, antes |-> GrafoVacio, n |-> 0]

SinSalida == [op |-> "ninguna", camino |-> <<>>, texto |-> <<>>]

\* The C given to ListaAbiertaDialOptimizada: the greatest weight of an arc.
CosteMaximo == MaxPeso

SinDial == DialNuevo(CosteMaximo)

Reposo ==
    /\ abierta = ListaAbiertaVacia
    /\ ultimo = SinLlamada
    /\ basico = BasicoNuevo
    /\ carga = SinCarga
    /\ salida = SinSalida
    /\ dial = SinDial
    /\ cerrados = ListaCerradaVacia

\* Vertex identifiers are opaque to the engines (never ordered or compared
\* except for equality with destino and set membership) and the graphs drawn
\* are closed under renaming, so the origin is vertex 1.
Init ==
    /\ \E lineas \in Ficheros, c \in Coordenadas :
          grafo = [cargar_grafo(GrafoVacio, lineas) EXCEPT
                      !.coordenadas = c, !.num_vertices = Cardinality(DOMAIN c)]
    /\ origen = 1
    /\ destino \in Nodos
    /\ dijkstra = AlgoritmoNuevo
    /\ astar = AlgoritmoNuevo
    /\ Reposo

Next == DijkstraInicio \/ DijkstraIteracion \/ AStarInicio \/ AStarIteracion

Spec == Init /\ [][Next]_vars
\* ------------------------------------------------------------- layered maps
\* A second family of inputs, with more vertices and sparser arcs: vertex 1
\* alone in layer 0, then NumCapas layers of Ancho vertices.  An arc joins a
\* vertex to a vertex of the next layer or to another vertex of its own layer;
\* the file lists them by source and target.  Every vertex has coordinates, at
\* a whole number of distance units; the destination is in the last layer.
NumCapas == 2
Ancho == 2
MaxArcosCapas == 4
MaxUnidades == 1

NodosCapas == 1..(1 + NumCapas * Ancho)

Capa(v) == IF v = 1 THEN 0 ELSE ((v - 2) \div Ancho) + 1

ParesCapas ==
    {p \in NodosCapas \X NodosCapas :
        /\ p[1] # p[2]
        /\ Capa(p[2]) = Capa(p[1]) + 1 \/ Capa(p[2]) = Capa(p[1])}

Clave(p) == p[1] * (2 + NumCapas * Ancho) + p[2]

RECURSIVE LineasDe(_, _)
LineasDe(pares, peso) ==
    IF pares = {} THEN <<>>
    ELSE LET p == CHOOSE q \in pares : \A r \in pares : Clave(q) <= Clave(r)
         IN  <<<<p[1], p[2], peso[p]>>>> \o LineasDe(pares \ {p}, peso)

FicherosCapas ==
    {LineasDe({p \in ParesCapas : peso[p] # None}, peso) :
        peso \in {q \in [ParesCapas -> {None} \cup Pesos] :
                     Cardinality({p \in ParesCapas : q[p] # None}) <= MaxArcosCapas}}

InitCapas ==
    /\ \E lineas \in FicherosCapas, c \in [NodosCapas -> {2 * k : k \in 0..MaxUnidades}] :
          grafo = [cargar_grafo(GrafoVacio, lineas) EXCEPT
                      !.coordenadas = c, !.num_vertices = Cardinality(DOMAIN c)]
    /\ origen = 1
    /\ destino \in {v \in NodosCapas : Capa(v) = NumCapas}
    /\ dijkstra = AlgoritmoNuevo
    /\ astar = AlgoritmoNuevo
    /\ Reposo

SpecCapas == InitCapas /\ [][Next]_vars

\* ------------------------------------------------------------- maps with parallel arcs
\* A third family of inputs: vertex 1, then vertices 2 and 3, then vertex 4,
\* the destination.  An arc leaves 1 for 2 or 3, joins 2 and 3 in either
\* direction, or leaves 2 or 3 for 4; the file holds at most MaxArcosParalelos
\* lines, listed by source and target, and may repeat a pair of vertices with
\* different weights in either order.  Every vertex has coordinates, at a
\* whole number of distance units.
MaxArcosParalelos == 5

NodosParalelos == 1..4

ParesParalelos == {<<1, 2>>, <<1, 3>>, <<2, 3>>, <<3, 2>>, <<2, 4>>, <<3, 4>>}

ArcosParalelos == {<<p[1], p[2], w>> : p \in ParesParalelos, w \in Pesos}

ClaveArco(a) == a[1] * 5 + a[2]

FicherosParalelos ==
    {l \in UNION {[1..n -> ArcosParalelos] : n \in 0..MaxArcosParalelos} :
        \A i \in 1..(Len(l) - 1) :
            /\ ClaveArco(l[i]) <= ClaveArco(l[i + 1])
            /\ l[i] # l[i + 1]}

InitParalelos ==
    /\ \E lineas \in FicherosParalelos, c \in [NodosParalelos -> {2 * k : k \in 0..MaxUnidades}] :
          grafo = [cargar_grafo(GrafoVacio, lineas) EXCEPT
                      !.coordenadas = c, !.num_vertices = Cardinality(DOMAIN c)]
    /\ origen = 1
    /\ destino = 4
    /\ dijkstra = AlgoritmoNuevo
    /\ astar = AlgoritmoNuevo
    /\ Reposo

SpecParalelos == InitParalelos /\ [][Next]_vars

\* ------------------------------------------------------------- the frontier alone
\* ListaAbierta driven as test_dial_bucket does, by any sequence of at most
\* MaxLlamadas calls of insertar and extraer_minimo; g is an integer in
\* 0..MaxG and h a number of half units in 0..MaxH.
MaxLlamadas == 6
NumNodosLista == 2
MaxG == 2
MaxH == 2

LlamarInsertar ==
    /\ ultimo.n < MaxLlamadas
    /\ \E nodo \in 1..NumNodosLista, g \in 0..MaxG, h \in 0..MaxH :
          /\ abierta' = insertar(abierta, nodo, g, h)
          /\ ultimo' = [op |-> "insertar", nodo |-> nodo, g |-> g, h |-> h,
                        res |-> <<>>, antes |-> abierta, n |-> ultimo.n + 1]
    /\ UNCHANGED <<grafo, origen, destino, dijkstra, astar, basico, carga, salida, dial, cerrados>>

LlamarExtraer ==
    /\ ultimo.n < MaxLlamadas
    /\ LET r == extraer_minimo(abierta)
       IN  /\ abierta' = r.lista
           /\ ultimo' = [op |-> "extraer", nodo |-> None, g |-> None, h |-> None,
                         res |-> r.res, antes |-> abierta, n |-> ultimo.n + 1]
    /\ UNCHANGED <<grafo, origen, destino, dijkstra, astar, basico, carga, salida, dial, cerrados>>

InitLista ==
    /\ grafo = GrafoVacio
    /\ origen = 1
    /\ destino = 1
    /\ dijkstra = AlgoritmoNuevo
    /\ astar = AlgoritmoNuevo
    /\ Reposo

NextLista == LlamarInsertar \/ LlamarExtraer

SpecLista == InitLista /\ [][NextLista]_vars

\* ------------------------------------------------------------- ingestion
\* cargar_grafo and cargar_coordenadas read at most MaxLineas lines in all,
\* each of at most MaxTokens tokens drawn from Tokens; carga keeps the last
\* line read, the file it came from and the graph before it.
MaxLineas == 2
MaxTokens == 4

Tokens == {<<"a">>, <<"v">>, <<"1">>, <<"1", "2">>, <<"x">>}

Lineas == UNION {[1..n -> Tokens] : n \in 0..MaxTokens}

LeerLinea(fichero, partes) ==
    LET r == IF fichero = "gr" THEN CargarLineaGr(grafo, partes)
                               ELSE CargarLineaCo(grafo, partes)
    IN  /\ grafo' = r.grafo
        /\ carga' = [pc |-> IF r.ok THEN "cargando" ELSE "ValueError",
                     fichero |-> fichero, partes |-> partes, antes |-> grafo,
                     n |-> carga.n + 1]

LeerLineaGr ==
    /\ carga.pc # "ValueError"
    /\ carga.n < MaxLineas
    /\ \E partes \in Lineas : LeerLinea("gr", partes)
    /\ UNCHANGED <<origen, destino, dijkstra, astar, abierta, ultimo, basico, salida, dial, cerrados>>

LeerLineaCo ==
    /\ carga.pc # "ValueError"
    /\ carga.n < MaxLineas
    /\ \E partes \in Lineas : LeerLinea("co", partes)
    /\ UNCHANGED <<origen, destino, dijkstra, astar, abierta, ultimo, basico, salida, dial, cerrados>>

NextIngesta == LeerLineaGr \/ LeerLineaCo

SpecIngesta == InitLista /\ [][NextIngesta]_vars

\* ------------------------------------------------------------- one instance, two calls
\* resolver() of one AlgoritmoAStar instance is called, and called again once
\* it has returned or raised; primera keeps the instance as the first call
\* left it.
BasicoPrimera ==
    /\ basico.llamadas = 0
    /\ basico' = [basico EXCEPT !.alg = BasicoPreparar(@), !.llamadas = 1]
    /\ UNCHANGED <<grafo, origen, destino, dijkstra, astar, abierta, ultimo, carga, salida, dial, cerrados>>

BasicoSegunda ==
    /\ basico.llamadas = 1
    /\ Terminado(basico.alg)
    /\ basico' = [alg |-> BasicoPreparar(basico.alg), llamadas |-> 2, primera |-> basico.alg]
    /\ UNCHANGED <<grafo, origen, destino, dijkstra, astar, abierta, ultimo, carga, salida, dial, cerrados>>

BasicoIteracion ==
    /\ basico.alg.pc = "bucle"
    /\ basico' = [basico EXCEPT !.alg = BasicoPaso(@)]
    /\ grafo' = GrafoTrasPaso(basico.alg, basico'.alg)
    /\ UNCHANGED <<origen, destino, dijkstra, astar, abierta, ultimo, carga, salida, dial, cerrados>>

NextReuso == BasicoPrimera \/ BasicoSegunda \/ BasicoIteracion

SpecReuso == Init /\ [][NextReuso]_vars

\* --------------------------------------------- parte-2.py: rendering a result
\* A text is a sequence of pieces: one character each, except the literal
\* messages of the source, which are one piece.  A camino of <<>> is the None
\* that resolver() returns when there is no path.
RECURSIVE CifrasDe(_)
CifrasDe(n) ==
    IF n < 10 THEN <<Cifras[n + 1]>>
    ELSE Append(CifrasDe(n \div 10), Cifras[(n % 10) + 1])

str(n) == IF n < 0 THEN <<"-">> \o CifrasDe(0 - n) ELSE CifrasDe(n)

Separador == <<" ", "-", " ">>

RECURSIVE join(_, _)
join(separador, partes) ==
    IF partes = <<>> THEN <<>>
    ELSE IF Len(partes) = 1 THEN partes[1]
    ELSE partes[1] \o separador \o join(separador, Tail(partes))

\* The loop of formatear_camino from entry i on: the list partes.
RECURSIVE PartesDesde(_, _)
PartesDesde(camino, i) ==
    IF i > Len(camino) THEN <<>>
    ELSE IF i = 1 THEN <<str(camino[i][1])>> \o PartesDesde(camino, i + 1)
    ELSE << <<"(">> \o str(camino[i][2]) \o <<")">>, str(camino[i][1]) >>
            \o PartesDesde(camino, i + 1)

formatear_camino(camino) ==
    IF camino = <<>> THEN <<"No hay camino">>
    ELSE join(Separador, PartesDesde(camino, 1))

\* What main writes to the output file for the result of A*.
EscribirSalida(camino_astar) ==
    IF camino_astar # <<>> THEN formatear_camino(camino_astar) \o <<"\n">>
    ELSE <<"No se encontró solución", "\n">>

MaxTramos == 2

Identificadores == {1, 12, 305}

Costes == {0, 7, 10}

\* The results resolver() can hand to the rendering: None, or a list whose
\* first entry is (origin, 0) followed by (vertex, arc weight) entries.
Caminos ==
    {<<>>} \cup
    UNION {{c \in [1..(n + 1) -> Identificadores \X Costes] : c[1][2] = 0} : n \in 0..MaxTramos}

LlamarFormatear ==
    /\ salida.op = "ninguna"
    /\ salida' = [salida EXCEPT !.op = "formatear_camino",
                                !.texto = formatear_camino(salida.camino)]
    /\ UNCHANGED <<grafo, origen, destino, dijkstra, astar, abierta, ultimo, basico, carga, dial, cerrados>>

EscribirFichero ==
    /\ salida.op = "ninguna"
    /\ salida' = [salida EXCEPT !.op = "fichero",
                                !.texto = EscribirSalida(salida.camino)]
    /\ UNCHANGED <<grafo, origen, destino, dijkstra, astar, abierta, ultimo, basico, carga, dial, cerrados>>

InitSalida ==
    /\ grafo = GrafoVacio
    /\ origen = 1
    /\ destino = 1
    /\ dijkstra = AlgoritmoNuevo
    /\ astar = AlgoritmoNuevo
    /\ abierta = ListaAbiertaVacia
    /\ ultimo = SinLlamada
    /\ basico = BasicoNuevo
    /\ carga = SinCarga
    /\ dial = SinDial
    /\ cerrados = ListaCerradaVacia
    /\ \E c \in Caminos : salida = [op |-> "ninguna", camino |-> c, texto |-> <<>>]

NextSalida == LlamarFormatear \/ EscribirFichero

SpecSalida == InitSalida /\ [][NextSalida]_vars

\* ------------------- the Dijkstra loop over either list, on the same query
\* A pass of AlgoritmoDijkstra.resolver over ListaAbierta, with the key of the
\* vertex its extraer_minimo returns added to dial.claves_abierta.
ReferenciaIteracion ==
    /\ dijkstra.pc = "bucle"
    /\ dijkstra' = DijkstraPaso(dijkstra)
    /\ grafo' = GrafoTrasPaso(dijkstra, dijkstra')
    /\ LET r == extraer_minimo(dijkstra.abierta).res
       IN  dial' = IF esta_vacia(dijkstra.abierta) \/ r = <<>> THEN dial
                   ELSE [dial EXCEPT !.claves_abierta =
                                        Append(@, dijkstra.abierta.entrada[r[1]][1])]
    /\ UNCHANGED <<origen, destino, astar, abierta, ultimo, basico, carga, salida, cerrados>>

DialInicio ==
    /\ Terminado(dijkstra)
    /\ dial.pc = "creado"
    /\ dial' = DialPreparar(dial)
    /\ UNCHANGED <<grafo, origen, destino, dijkstra, astar, abierta, ultimo, basico, carga, salida, cerrados>>

DialIteracion ==
    /\ dial.pc = "bucle"
    /\ \E a \in DialPaso(dial) :
          /\ dial' = a
          /\ grafo' = GrafoTrasPaso(dial, a)
    /\ UNCHANGED <<origen, destino, dijkstra, astar, abierta, ultimo, basico, carga, salida, cerrados>>

InitDial ==
    /\ \E lineas \in Ficheros : grafo = cargar_grafo(GrafoVacio, lineas)
    /\ origen = 1
    /\ destino \in Nodos
    /\ dijkstra = AlgoritmoNuevo
    /\ astar = AlgoritmoNuevo
    /\ Reposo

NextDial == DijkstraInicio \/ ReferenciaIteracion \/ DialInicio \/ DialIteracion

SpecDial == InitDial /\ [][NextDial]_vars

\* ------------------------------- ListaAbiertaDialOptimizada on its own
DialLlamarInsertar ==
    /\ ultimo.n < MaxLlamadas
    /\ \E nodo \in 1..NumNodosLista, g \in 0..MaxG, h \in 0..MaxH :
          /\ dial' = [dial EXCEPT !.lista = dial_insertar(@, nodo, g, h)]
          /\ ultimo' = [op |-> "insertar", nodo |-> nodo, g |-> g, h |-> h,
                        res |-> <<>>, antes |-> dial.lista, n |-> ultimo.n + 1]
    /\ UNCHANGED <<grafo, origen, destino, dijkstra, astar, abierta, basico, carga, salida, cerrados>>

DialLlamarExtraer ==
    /\ ultimo.n < MaxLlamadas
    /\ \E r \in dial_extraer_minimo(dial.lista) :
          /\ dial' = [dial EXCEPT !.lista = r.lista]
          /\ ultimo' = [op |-> "extraer", nodo |-> None, g |-> None, h |-> None,
                        res |-> r.res, antes |-> dial.lista, n |-> ultimo.n + 1]
    /\ UNCHANGED <<grafo, origen, destino, dijkstra, astar, abierta, basico, carga, salida, cerrados>>

NextListaDial == DialLlamarInsertar \/ DialLlamarExtraer

SpecListaDial == InitLista /\ [][NextListaDial]_vars

\* ------------------------------------------------ ListaCerrada on its own
MaxInserciones == 3
NumNodosCerrada == 3
MaxCosteArco == 1

NodosCerrada == 1..NumNodosCerrada

LlamarCerradaInsertar ==
    /\ cerrados.n < MaxInserciones
    /\ cerrados.op = "ninguna"
    /\ \E nodo \in NodosCerrada, padre \in NodosCerrada \cup {None},
          coste_arco \in 0..MaxCosteArco, g \in 0..MaxCosteArco :
          cerrados' = [cerrados EXCEPT
                          !.cerrados = cerrada_insertar(@, nodo, padre, coste_arco, g),
                          !.n = @ + 1]
    /\ UNCHANGED <<grafo, origen, destino, dijkstra, astar, abierta, ultimo, basico, carga, salida, dial>>

LlamarCerradaReconstruir ==
    /\ cerrados.op = "ninguna"
    /\ \E nodo_objetivo \in NodosCerrada :
          LET r == cerrada_reconstruir_camino(cerrados.cerrados, nodo_objetivo)
          IN  cerrados' = [cerrados EXCEPT !.op = "reconstruir_camino",
                                           !.objetivo = nodo_objetivo,
                                           !.camino = r.camino,
                                           !.pc = r.pc]
    /\ UNCHANGED <<grafo, origen, destino, dijkstra, astar, abierta, ultimo, basico, carga, salida, dial>>

NextCerrada == LlamarCerradaInsertar \/ LlamarCerradaReconstruir

SpecCerrada == InitLista /\ [][NextCerrada]_vars

\* ------------------------------------------------------------- properties
ArcosDelGrafo ==
    UNION {{<<u, grafo.adyacencia[u][i][1], grafo.adyacencia[u][i][2]>> :
               i \in 1..Len(grafo.adyacencia[u])} : u \in DOMAIN grafo.adyacencia}

Vertices ==
    {origen, destino} \cup {a[1] : a \in ArcosDelGrafo} \cup {a[2] : a \in ArcosDelGrafo}

\* Bellman-Ford: the least cost of a directed path from o to each vertex,
\* Infinito when there is none.
RECURSIVE Relajar(_, _, _)
Relajar(arcos, d, k) ==
    IF k = 0 THEN d
    ELSE Relajar(arcos,
                 [v \in DOMAIN d |->
                    Minimo({d[v]} \cup {d[a[1]] + a[3] :
                        a \in {b \in arcos : b[2] = v /\ d[b[1]] < Infinito}})],
                 k - 1)

Distancias(o) ==
    LET V == Vertices
    IN  Relajar(ArcosDelGrafo, [v \in V |-> IF v = o THEN 0 ELSE Infinito], Cardinality(V) - 1)

\* The same over the reversed arcs: the least cost from each vertex to d.
DistanciasHasta(d) ==
    LET V == Vertices
    IN  Relajar({<<a[2], a[1], a[3]>> : a \in ArcosDelGrafo},
                [v \in V |-> IF v = d THEN 0 ELSE Infinito], Cardinality(V) - 1)

DistanciaReal == Distancias(origen)[destino]

Alcanzable == DistanciaReal < Infinito

ConsultaValida == existe_vertice(origen) /\ existe_vertice(destino)

\* h is defined on every vertex and h(u) <= w + h(v) on every arc (half units).
Consistente ==
    /\ \A v \in Vertices : existe_vertice(v)
    /\ \A a \in ArcosDelGrafo : heuristica(a[1]) <= 2 * a[3] + heuristica(a[2])

\* h is defined on every vertex and never above the true remaining cost.
Admisible ==
    /\ \A v \in Vertices : existe_vertice(v)
    /\ LET resto == DistanciasHasta(destino)
       IN  \A v \in Vertices : resto[v] < Infinito => heuristica(v) <= 2 * resto[v]
RECURSIVE Suma(_)
Suma(camino) == IF camino = <<>> THEN 0 ELSE Head(camino)[2] + Suma(Tail(camino))

Motores == {dijkstra, astar}

\* C1: whenever the destination is reachable from the origin,
\* AlgoritmoDijkstra.resolver() returns a path and a cost equal to the least
\* sum of weights over all directed paths from origin to destination.
C1_DijkstraCosteMinimo ==
    (Terminado(dijkstra) /\ Alcanzable) =>
        (dijkstra.pc = "SOLVED" /\ dijkstra.coste = DistanciaReal)

\* The case of the example: a two-arc path is returned that is cheaper than a
\* direct arc from origin to destination.
C1_Witness ==
    /\ dijkstra.pc = "SOLVED"
    /\ Len(dijkstra.camino) = 3
    /\ \E a \in ArcosDelGrafo : a[1] = origen /\ a[2] = destino /\ a[3] > dijkstra.coste

\* C2: with a consistent heuristic and a reachable destination,
\* AlgoritmoAStarConPadres.resolver() returns the same cost as
\* AlgoritmoDijkstra.resolver(), the frontier key being int(g + h).
C2_AStarIgualDijkstra ==
    (Terminado(astar) /\ Alcanzable /\ Consistente) =>
        (astar.pc = "SOLVED" /\ dijkstra.pc = "SOLVED" /\ astar.coste = dijkstra.coste)

\* A consistent heuristic with a fractional value at the origin (so int()
\* truncates) that spares A* an expansion Dijkstra makes.
C2_Witness ==
    /\ astar.pc = "SOLVED"
    /\ Len(astar.camino) >= 2
    /\ astar.expansiones < dijkstra.expansiones
    /\ Consistente
    /\ heuristica(origen) % 2 = 1

\* C3: with an admissible heuristic (never above the true remaining cost, not
\* necessarily consistent) AlgoritmoAStarConPadres.resolver() returns the
\* least path cost.
C3_AdmisibleOptimo ==
    (Terminado(astar) /\ Alcanzable /\ Admisible) =>
        (astar.pc = "SOLVED" /\ astar.coste = DistanciaReal)

\* C4: with a consistent heuristic, A* never makes more expansions than
\* Dijkstra on the same graph, origin and destination.
C4_ExpansionesAStarMenorIgual ==
    (Terminado(dijkstra) /\ Terminado(astar) /\ Consistente) =>
        astar.expansiones <= dijkstra.expansiones

\* C5: on a query whose origin and destination have coordinates, resolver()
\* of either engine returns (None, None) exactly when no directed path from
\* origin to destination exists.
C5_SinCaminoSiiInalcanzable ==
    \A alg \in Motores :
        (ConsultaValida /\ Terminado(alg)) => (alg.pc = "EXHAUSTED" <=> ~Alcanzable)

\* C6: when origin = destino, resolver() of either engine returns the path
\* <<(origen, 0)>> and the cost 0 (for A*, once heuristica(origen) is defined),
\* whatever arcs leave the vertex.
SoloOrigen(alg) == alg.pc = "SOLVED" /\ alg.camino = <<<<origen, 0>>>> /\ alg.coste = 0

C6_OrigenIgualDestino ==
    origen = destino =>
        /\ Terminado(dijkstra) => SoloOrigen(dijkstra)
        /\ (Terminado(astar) /\ existe_vertice(origen)) => SoloOrigen(astar)

\* Origin = destination with a zero-weight self-loop and another arc.
C6_Witness ==
    /\ origen = destino
    /\ SoloOrigen(astar) /\ SoloOrigen(dijkstra)
    /\ <<origen, origen, 0>> \in ArcosDelGrafo
    /\ \E a \in ArcosDelGrafo : a[1] = origen /\ a[2] # origen /\ a[3] = 0

\* C7: for every returned path, the coste_arco fields sum to the returned cost
\* and each entry (v, w) follows an entry (u, _) such that the graph has an arc
\* u -> v of weight w.
CaminoValido(alg) ==
    /\ Suma(alg.camino) = alg.coste
    /\ \A i \in 1..(Len(alg.camino) - 1) :
          <<alg.camino[i][1], alg.camino[i + 1][1], alg.camino[i + 1][2]>> \in ArcosDelGrafo

C7_CaminoValido == \A alg \in Motores : alg.pc = "SOLVED" => CaminoValido(alg)

\* A two-arc path of positive cost whose first step has a parallel arc of
\* another weight.
C7_Witness ==
    /\ astar.pc = "SOLVED"
    /\ Len(astar.camino) = 3
    /\ astar.coste > 0
    /\ \E a \in ArcosDelGrafo :
          /\ a[1] = astar.camino[1][1] /\ a[2] = astar.camino[2][1]
          /\ a[3] # astar.camino[2][2]

\* C8: when origin and destination have coordinates, a resolver() run ends
\* only as SOLVED or EXHAUSTED.
C8_SoloDosFinales ==
    \A alg \in Motores :
        (ConsultaValida /\ Terminado(alg)) => alg.pc \in {"SOLVED", "EXHAUSTED"}

\* C9: when the origin or the destination has no coordinates, resolver() of
\* either engine fails before the loop starts: it never reaches the loop and
\* never returns.
C9_RechazoAntesDeBuscar ==
    ~ConsultaValida => \A alg \in Motores : alg.pc \in {"creado", "KeyError"}

\* C10: when origin and destination have coordinates and some arc leads to a
\* vertex without coordinates, no run fails with a missing-vertex error.
C10_SinErrorPorIntermedio ==
    (ConsultaValida /\ \E a \in ArcosDelGrafo : ~existe_vertice(a[2])) =>
        (astar.pc # "KeyError" /\ dijkstra.pc # "KeyError")

\* The records (nodo, g) held by any bucket of a list.
Registros(L) == UNION {{L.buckets[f][i] : i \in 1..Len(L.buckets[f])} : f \in DOMAIN L.buckets}

\* C11: during a resolver() run of either engine, every vertex with a live
\* frontier entry is recorded there with g equal to g_minimo of that vertex,
\* and no closed vertex has a live entry (so none is ever inserted again).
FronteraCoherente(alg) ==
    \A v \in DOMAIN alg.abierta.entrada :
        /\ v \in DOMAIN alg.g_minimo
        /\ alg.abierta.entrada[v][2] = alg.g_minimo[v]
        /\ v \notin alg.cerrada

C11_FronteraCoherente == \A alg \in Motores : FronteraCoherente(alg)

\* A* is in its loop with a live vertex whose entry replaced a costlier one,
\* while an arc leads from a closed vertex back to a closed vertex.
C11_Witness ==
    /\ astar.pc = "bucle"
    /\ \E v \in DOMAIN astar.abierta.entrada :
          \E r \in Registros(astar.abierta) : r[1] = v /\ r[2] > astar.abierta.entrada[v][2]
    /\ \E a \in ArcosDelGrafo : a[1] \in astar.cerrada /\ a[2] \in astar.cerrada
\* ---- ListaAbierta on its own (SpecLista)
Vivos(L) == DOMAIN L.entrada

\* How many records of a vertex the buckets of a list hold.
Apariciones(L, v) ==
    Cardinality({p \in UNION {{<<f, i>> : i \in 1..Len(L.buckets[f])} : f \in DOMAIN L.buckets} :
                    L.buckets[p[1]][p[2]][1] = v})

EsPrefijo(s, t) == Len(s) <= Len(t) /\ \A i \in 1..Len(s) : s[i] = t[i]

Mejora == /\ ultimo.op = "insertar"
          /\ ultimo.nodo \in Vivos(ultimo.antes)
          /\ ultimo.antes.entrada[ultimo.nodo][2] > ultimo.g

\* C12 as stated: after any sequence of insertar and extraer_minimo calls each
\* vertex occurs in the buckets at most once, in the bucket of its currently
\* recorded key f; a superseded entry is removed when insertar improves g.
C12_EliminacionInmediata ==
    \A f \in DOMAIN abierta.buckets : \A i \in 1..Len(abierta.buckets[f]) :
        LET v == abierta.buckets[f][i][1]
        IN  /\ Apariciones(abierta, v) <= 1
            /\ v \in Vivos(abierta) => abierta.entrada[v][1] = f

\* C12 amended: each vertex has at most one live entry (its record in
\* entrada), which has a record (v, g) in the bucket of its key f; when
\* insertar improves a vertex's g the superseded record stays in its old
\* bucket (every bucket keeps its earlier records in order), and
\* extraer_minimo skips it: the pair it returns carries the g recorded in
\* entrada for that vertex.
C12_BorradoPerezoso ==
    /\ \A v \in Vivos(abierta) :
          /\ abierta.entrada[v][1] \in DOMAIN abierta.buckets
          /\ \E i \in 1..Len(abierta.buckets[abierta.entrada[v][1]]) :
                abierta.buckets[abierta.entrada[v][1]][i] = <<v, abierta.entrada[v][2]>>
    /\ ultimo.op = "insertar" =>
          \A f \in DOMAIN ultimo.antes.buckets :
              f \in DOMAIN abierta.buckets /\ EsPrefijo(ultimo.antes.buckets[f], abierta.buckets[f])
    /\ (ultimo.op = "extraer" /\ ultimo.res # <<>>) =>
          /\ ultimo.res[1] \in Vivos(ultimo.antes)
          /\ ultimo.antes.entrada[ultimo.res[1]][2] = ultimo.res[2]

\* extraer_minimo has just skipped a superseded record of the vertex it
\* returns, lying ahead of the live one in the same bucket.
C12_Witness ==
    /\ ultimo.op = "extraer" /\ ultimo.res # <<>>
    /\ LET b == ultimo.antes.buckets[ultimo.antes.entrada[ultimo.res[1]][1]]
       IN  Head(b)[1] = ultimo.res[1] /\ Head(b)[2] > ultimo.res[2]

\* C13: when at least one vertex is live, extraer_minimo returns (v, g) where
\* v was live with recorded (f, g), f the least recorded key of the live
\* vertices; afterwards v is not live and the other entries are as before.
C13_ExtraeMinimo ==
    (ultimo.op = "extraer" /\ Vivos(ultimo.antes) # {}) =>
        /\ ultimo.res # <<>>
        /\ LET v == ultimo.res[1]
               e == ultimo.antes.entrada
           IN  /\ v \in DOMAIN e
               /\ e[v][2] = ultimo.res[2]
               /\ e[v][1] = Minimo({e[w][1] : w \in DOMAIN e})
               /\ abierta.entrada = Del(e, v)

\* extraer_minimo returns the vertex of least key although a vertex of a
\* greater key was inserted before it and the buckets hold a superseded record.
C13_Witness ==
    /\ ultimo.op = "extraer" /\ ultimo.res # <<>>
    /\ Cardinality(Vivos(ultimo.antes)) = 2
    /\ \E w \in Vivos(abierta) :
          /\ abierta.entrada[w][1] > ultimo.antes.entrada[ultimo.res[1]][1]
          /\ Apariciones(ultimo.antes, w) = 2

\* C14: insertar(v, g, h) on a list where v is live with recorded g' <= g
\* leaves buckets, entrada, min_f and num_elementos as they were, whatever h.
C14_InsertarPeorNoCambia ==
    (/\ ultimo.op = "insertar"
     /\ ultimo.nodo \in Vivos(ultimo.antes)
     /\ ultimo.antes.entrada[ultimo.nodo][2] <= ultimo.g) => abierta = ultimo.antes

\* A tie in g with an h that gives another key than the recorded one.
C14_Witness ==
    /\ ultimo.op = "insertar"
    /\ ultimo.nodo \in Vivos(ultimo.antes)
    /\ ultimo.antes.entrada[ultimo.nodo][2] = ultimo.g
    /\ ultimo.antes.entrada[ultimo.nodo][1] # Entero(ultimo.g, ultimo.h)
    /\ abierta = ultimo.antes

\* C15: len() is the number of live vertices, esta_vacia() holds iff none is
\* live, obtener_g(v) is the last accepted g of v or None, contiene(v) tells
\* whether v is live, and extraer_minimo returns None iff no vertex is live.
C15_LecturasDirectas ==
    /\ Longitud(abierta) = Cardinality(Vivos(abierta))
    /\ esta_vacia(abierta) <=> Vivos(abierta) = {}
    /\ \A v \in 1..NumNodosLista :
          /\ contiene(abierta, v) <=> obtener_g(abierta, v) # None
          /\ obtener_g(abierta, v) =
                IF ultimo.op = "insertar" /\ v = ultimo.nodo
                THEN (IF obtener_g(ultimo.antes, v) # None /\ obtener_g(ultimo.antes, v) <= ultimo.g
                      THEN obtener_g(ultimo.antes, v) ELSE ultimo.g)
                ELSE IF ultimo.op = "extraer" /\ ultimo.res # <<>> /\ v = ultimo.res[1]
                THEN None
                ELSE obtener_g(ultimo.antes, v)
    /\ ultimo.op = "extraer" => (ultimo.res = <<>> <=> Vivos(ultimo.antes) = {})

\* extraer_minimo returns None on a list that is empty although its buckets
\* still hold superseded records, after an entry was replaced.
C15_Witness ==
    /\ ultimo.op = "extraer" /\ ultimo.res = <<>>
    /\ Longitud(ultimo.antes) = 0
    /\ \E f \in DOMAIN ultimo.antes.buckets : ultimo.antes.buckets[f] # <<>>
\* ---- closed vertices
\* From one state of an engine to the next: every closed vertex stays closed
\* with the same g_minimo and the same parent entry, and each closing counted
\* by expansiones closes a vertex that was not closed.
CerradosFijos(a, b) ==
    /\ \A v \in a.cerrada :
          /\ v \in b.cerrada
          /\ b.g_minimo[v] = a.g_minimo[v]
          /\ b.padres[v] = a.padres[v]
    /\ b.expansiones - a.expansiones = Cardinality(b.cerrada \ a.cerrada)

\* C16: during a resolver() run of either engine each vertex is closed at
\* most once, and once a vertex is closed its g_minimo and its parent entry
\* never change.
C16_CerradoDefinitivo ==
    [][CerradosFijos(dijkstra, dijkstra') /\ CerradosFijos(astar, astar')]_vars

\* A* has ended after expanding a vertex u with an arc to a vertex v that was
\* closed earlier at a cost greater than g(u) plus the weight of the arc: the
\* cheaper path was found and v was left as it was.
C16_Witness ==
    /\ Terminado(astar)
    /\ \E a \in ArcosDelGrafo :
          /\ a[1] \in astar.cerrada \ {destino}
          /\ a[2] \in astar.cerrada
          /\ astar.g_minimo[a[1]] + a[3] < astar.g_minimo[a[2]]
\* ---- a second resolver() call on the same instance
\* C17: the second resolver() call on an engine instance starts from a
\* frontier holding only the origin, an empty closed set and cost and parent
\* maps holding only the origin, and it ends as the first call did, with the
\* same path and cost (stated for a first call that returned).
C17_SinEstadoEntreLlamadas ==
    (basico.llamadas = 2 /\ basico.primera.pc \in {"SOLVED", "EXHAUSTED"}) =>
        /\ (basico.alg.pc = "bucle" /\ basico.alg.cerrada = {}) =>
              /\ DOMAIN basico.alg.abierta.entrada = {origen}
              /\ DOMAIN basico.alg.g_minimo = {origen}
              /\ DOMAIN basico.alg.padres = {origen}
        /\ Terminado(basico.alg) =>
              /\ basico.alg.pc = basico.primera.pc
              /\ basico.alg.camino = basico.primera.camino
              /\ basico.alg.coste = basico.primera.coste
\* ---- parallel arcs
\* The weights of the arcs u -> v.
PesosEntre(u, v) == {a[3] : a \in {b \in ArcosDelGrafo : b[1] = u /\ b[2] = v}}

\* The vertices an engine has expanded: closed ones, except the destination
\* (the run returns before reading its successors) and the vertex whose
\* expansion a KeyError cut short.
Expandidos(alg) ==
    IF alg.pc = "KeyError"
    THEN {u \in alg.cerrada : \A a \in ArcosDelGrafo : a[1] = u => a[2] \in DOMAIN alg.g_minimo
                                  /\ existe_vertice(a[2])}
    ELSE alg.cerrada \ {destino}

\* C18: when several arcs u -> v with different weights exist, then once u is
\* expanded the recorded g of v is at most g(u) plus the least of the weights,
\* and the parent entry of v carries the weight of an arc from the recorded
\* parent that gives the recorded g.
ParalelosBien(alg) ==
    \A u \in Expandidos(alg) : \A v \in Vertices :
        Cardinality(PesosEntre(u, v)) >= 2 =>
            /\ v \in DOMAIN alg.g_minimo
            /\ alg.g_minimo[v] <= alg.g_minimo[u] + Minimo(PesosEntre(u, v))
            /\ \/ alg.padres[v] = <<None, 0>> /\ v = origen
               \/ /\ alg.padres[v][2] \in PesosEntre(alg.padres[v][1], v)
                  /\ alg.g_minimo[v] = alg.g_minimo[alg.padres[v][1]] + alg.padres[v][2]

C18_ArcosParalelos == \A alg \in Motores : ParalelosBien(alg)
\* ---- ingestion
\* The record shape of a file: first token 'a' (.gr) or 'v' (.co), at least 4
\* tokens, the three after the first parsing as integers.
FormaEsperada(fichero, partes) ==
    /\ Len(partes) >= 4
    /\ partes[1] = (IF fichero = "gr" THEN <<"a">> ELSE <<"v">>)
    /\ EsEntero(partes[2]) /\ EsEntero(partes[3]) /\ EsEntero(partes[4])

\* C19: ingestion never raises on a line, and a line that does not have the
\* record shape (also one that starts with 'a' or 'v' and has 4 tokens, one
\* of them not an integer) leaves adyacencia, coordenadas, num_arcos and
\* num_vertices as they were.
C19_LineasMalFormadasSeSaltan ==
    /\ carga.pc # "ValueError"
    /\ (carga.n > 0 /\ ~FormaEsperada(carga.fichero, carga.partes)) => grafo = carga.antes
\* ---- the graph during a search
\* C20: no step of a resolver() run changes the graph: adyacencia with every
\* successor list, coordenadas, num_arcos and num_vertices stay as they are,
\* also when obtener_sucesores is called for a vertex without outgoing arcs.
C20_GrafoIntacto == [][grafo' = grafo]_vars

\* A* has returned a path after expanding a vertex that has no list in
\* adyacencia, and Dijkstra has ended too.
C20_Witness ==
    /\ astar.pc = "SOLVED"
    /\ Terminado(dijkstra)
    /\ \E v \in astar.cerrada \ {destino} : v \notin DOMAIN grafo.adyacencia

\* The line of a written text, without its end of line.
SinSalto(texto) ==
    IF texto # <<>> /\ texto[Len(texto)] = "\n" THEN SubSeq(texto, 1, Len(texto) - 1)
    ELSE texto

\* The tokens of a text between occurrences of ' - '.
RECURSIVE Partir(_, _)
Partir(texto, actual) ==
    IF texto = <<>> THEN <<actual>>
    ELSE IF Len(texto) >= 3 /\ SubSeq(texto, 1, 3) = Separador
         THEN <<actual>> \o Partir(SubSeq(texto, 4, Len(texto)), <<>>)
    ELSE Partir(Tail(texto), Append(actual, Head(texto)))

EntreParentesis(token) ==
    /\ Len(token) >= 3
    /\ token[1] = "(" /\ token[Len(token)] = ")"
    /\ EsEntero(SubSeq(token, 2, Len(token) - 1))

\* The tokens v0, (w1), v1, ..., (wn), vn of a path, read back from a text.
TokensDelCamino(camino, linea) ==
    LET tokens == Partir(linea, <<>>) IN
    /\ Len(tokens) = 2 * (Len(camino) - 1) + 1
    /\ \A i \in 1..Len(camino) :
          /\ EsEntero(tokens[2 * i - 1])
          /\ int(tokens[2 * i - 1]) = camino[i][1]
          /\ i > 1 =>
                /\ EntreParentesis(tokens[2 * i - 2])
                /\ int(SubSeq(tokens[2 * i - 2], 2, Len(tokens[2 * i - 2]) - 1)) = camino[i][2]

\* C21: every rendering of a result (formatear_camino and the writer of the
\* output file) gives, for a path of n arcs, the 2n+1 tokens v0, (w1), v1, ...,
\* (wn), vn joined by ' - ', and for a result with no path the literal
\* 'No se encontró solución'.
C21_Render ==
    salida.op # "ninguna" =>
        IF salida.camino = <<>>
        THEN SinSalto(salida.texto) = <<"No se encontró solución">>
        ELSE TokensDelCamino(salida.camino, SinSalto(salida.texto))

\* C22: a run counts and closes only the extracted vertices that are not the
\* destination: the destination is never in the closed set, and on SOLVED
\* expansiones is the number of non-destination vertices extracted (0 when
\* the origin is the destination).
C22_DestinoNoCuenta ==
    \A alg \in Motores :
        /\ destino \notin alg.cerrada
        /\ alg.pc = "SOLVED" =>
              /\ alg.expansiones = Cardinality(alg.cerrada \ {destino})
              /\ origen = destino => alg.expansiones = 0

\* C23: at every point of a run, every vertex other than the origin that has
\* a parent entry (p, w) has p closed, an arc p -> v of weight w in the graph
\* and g_minimo[v] = g_minimo[p] + w; the origin keeps the entry (None, 0)
\* and g_minimo 0, also when an arc leads back to it.
C23_ArbolDePadres ==
    \A alg \in Motores :
        alg.pc # "creado" =>
            /\ alg.padres[origen] = <<None, 0>>
            /\ alg.g_minimo[origen] = 0
            /\ \A v \in DOMAIN alg.padres \ {origen} :
                  LET p == alg.padres[v][1]
                      w == alg.padres[v][2]
                  IN  /\ p \in alg.cerrada
                      /\ <<p, v, w>> \in ArcosDelGrafo
                      /\ alg.g_minimo[v] = alg.g_minimo[p] + w

\* A finished run that expanded a vertex with an arc back to the origin and
\* holds a parent entry whose parent is not the origin.
C23_Witness ==
    \E alg \in Motores :
        /\ Terminado(alg)
        /\ \E v \in DOMAIN alg.padres \ {origen} : alg.padres[v][1] # origen
        /\ \E a \in ArcosDelGrafo : a[2] = origen /\ a[1] # origen /\ a[1] \in alg.cerrada

\* The number of iterations of the while loop of _reconstruir_camino from
\* nodo, None when it is still running after k of them.
RECURSIVE PasosHastaNone(_, _, _)
PasosHastaNone(padres, nodo, k) ==
    IF nodo = None THEN 0
    ELSE IF k = 0 \/ nodo \notin DOMAIN padres THEN None
    ELSE LET resto == PasosHastaNone(padres, padres[nodo][1], k - 1)
         IN  IF resto = None THEN None ELSE resto + 1

\* C24: for every SOLVED result the walk of _reconstruir_camino over the
\* parent entries ends (after at most one iteration per recorded vertex), and
\* the path it returns starts with (origen, 0), ends at destino and holds no
\* vertex twice, zero-weight cycles or not.
C24_CaminoSimple ==
    \A alg \in Motores :
        alg.pc = "SOLVED" =>
            /\ PasosHastaNone(alg.padres, destino, Cardinality(DOMAIN alg.padres))
                  = Len(alg.camino)
            /\ alg.camino[1] = <<origen, 0>>
            /\ alg.camino[Len(alg.camino)][1] = destino
            /\ \A i, j \in 1..Len(alg.camino) :
                  alg.camino[i][1] = alg.camino[j][1] => i = j

\* A SOLVED run whose path goes through a zero-weight cycle of the graph.
C24_Witness ==
    \E alg \in Motores :
        /\ alg.pc = "SOLVED"
        /\ Len(alg.camino) = 3
        /\ <<alg.camino[1][1], alg.camino[2][1], 0>> \in ArcosDelGrafo
        /\ <<alg.camino[2][1], alg.camino[1][1], 0>> \in ArcosDelGrafo

CerradosExactos(alg) ==
    alg.cerrada = {} \/
    LET d == Distancias(origen) IN \A v \in alg.cerrada : alg.g_minimo[v] = d[v]

\* C25: in Dijkstra, and in A* when the heuristic is consistent, every closed
\* vertex has g_minimo equal to the least cost of a path from the origin.
C25_CerradoConDistanciaReal ==
    /\ CerradosExactos(dijkstra)
    /\ astar.cerrada # {} => (Consistente => CerradosExactos(astar))

\* A* under a consistent, non-zero heuristic closed a vertex that it had first
\* reached by a costlier path.
C25_Witness ==
    /\ Terminado(astar)
    /\ Consistente
    /\ \E v \in astar.cerrada : heuristica(v) > 0
    /\ \E v \in astar.cerrada \ {origen} :
          \E a \in ArcosDelGrafo : a[1] = origen /\ a[2] = v /\ a[3] > astar.g_minimo[v]

\* One call on the list: what extraer_minimo returns is the vertex with the g
\* that obtener_g gave for it just before the call, and the vertex is not
\* live afterwards; a vertex that was not live becomes live only by an
\* insertar of that vertex.
DevuelveElVivo ==
    /\ (ultimo'.op = "extraer" /\ ultimo'.res # <<>>) =>
          /\ obtener_g(abierta, ultimo'.res[1]) = ultimo'.res[2]
          /\ ~contiene(abierta', ultimo'.res[1])
    /\ \A v \in 1..NumNodosLista :
          (~contiene(abierta, v) /\ contiene(abierta', v)) =>
              (ultimo'.op = "insertar" /\ ultimo'.nodo = v)

\* C26: over any sequence of insertar and extraer_minimo calls, extraer_minimo
\* never returns a superseded entry: the g it returns is obtener_g(v) just
\* before the call, and between two insertions of v accepted as new entries
\* v is returned at most once (it stops being live when returned and only an
\* accepted insertion makes it live again).
C26_NuncaSuperado == [][DevuelveElVivo]_vars

\* extraer_minimo has returned a vertex that was improved, extracted and
\* inserted again with the (f, g) of a superseded record of its own: the
\* bucket held two equal records of it and still holds one.
C26_Witness ==
    /\ ultimo.op = "extraer" /\ ultimo.res # <<>>
    /\ Apariciones(ultimo.antes, ultimo.res[1]) >= 2
    /\ LET f == ultimo.antes.entrada[ultimo.res[1]][1]
       IN  /\ f \in DOMAIN abierta.buckets
           /\ \E i \in 1..Len(abierta.buckets[f]) : abierta.buckets[f][i] = ultimo.res
    /\ ~contiene(abierta, ultimo.res[1])

\* C27: min_f is never above the recorded key of a live vertex, it is the
\* least key of the buckets mapping whenever the mapping has a key, and it is
\* float('inf') whenever the mapping has none.
C27_MinimoDeLosBuckets ==
    /\ \A v \in Vivos(abierta) : abierta.min_f <= abierta.entrada[v][1]
    /\ DOMAIN abierta.buckets # {} => abierta.min_f = Minimo(DOMAIN abierta.buckets)
    /\ DOMAIN abierta.buckets = {} => abierta.min_f = Infinito

\* After an extraction emptied the bucket of the least key, a vertex was
\* inserted with a greater key: min_f is the key of an empty deque, below the
\* key of every live vertex.
C27_Witness ==
    /\ ultimo.op = "insertar"
    /\ Vivos(abierta) # {}
    /\ abierta.min_f \in DOMAIN abierta.buckets
    /\ abierta.buckets[abierta.min_f] = <<>>
    /\ \A v \in Vivos(abierta) : abierta.min_f < abierta.entrada[v][1]

\* insertar(v, g, h) was called on a list where v was not live, or was live
\* with a greater g.
InsercionAceptada ==
    /\ ultimo.op = "insertar"
    /\ \/ ultimo.nodo \notin Vivos(ultimo.antes)
       \/ ultimo.antes.entrada[ultimo.nodo][2] > ultimo.g

\* C28: an insertar(v, g, h) on a list where v is not live, or is live with
\* g' > g, leaves v live with the key int(g + h) and the cost g: contiene(v)
\* holds, obtener_g(v) = g, len() has grown by 1 if v was not live and is
\* unchanged if it was, and the (f, g) of every other vertex is as before.
C28_InsertarAceptado ==
    InsercionAceptada =>
        LET v == ultimo.nodo IN
        /\ contiene(abierta, v)
        /\ obtener_g(abierta, v) = ultimo.g
        /\ 2 * abierta.entrada[v][1] <= 2 * ultimo.g + ultimo.h
        /\ 2 * ultimo.g + ultimo.h < 2 * abierta.entrada[v][1] + 2
        /\ Longitud(abierta) =
              Longitud(ultimo.antes) + (IF v \in Vivos(ultimo.antes) THEN 0 ELSE 1)
        /\ Vivos(abierta) \ {v} = Vivos(ultimo.antes) \ {v}
        /\ \A w \in Vivos(abierta) \ {v} : abierta.entrada[w] = ultimo.antes.entrada[w]

\* An improvement of a live vertex with an h that is not a whole number of
\* units, so that int() truncates, while another vertex is live.
C28_Witness ==
    /\ InsercionAceptada
    /\ ultimo.nodo \in Vivos(ultimo.antes)
    /\ ultimo.h % 2 = 1
    /\ Cardinality(Vivos(abierta)) = 2
    /\ Longitud(abierta) = 2

\* ---- order of the extractions
\* The key int(g + h) of a closed vertex, h in half units (0 for Dijkstra).
ClaveDijkstra(alg, v) == alg.g_minimo[v]

ClaveAStar(alg, v) == (2 * alg.g_minimo[v] + heuristica(v)) \div 2

\* The entries that a pass of the loop inserted: live after it, and not live
\* or recorded otherwise before it.
Insertados(a, b) ==
    {w \in DOMAIN b.abierta.entrada :
        w \notin DOMAIN a.abierta.entrada \/ a.abierta.entrada[w] # b.abierta.entrada[w]}

\* From one state of Dijkstra to the next: the vertex just extracted has a
\* key not below that of any vertex extracted before, and no key inserted by
\* the pass is below it.
OrdenDijkstra(a, b) ==
    \A v \in b.cerrada \ a.cerrada :
        /\ \A u \in a.cerrada : ClaveDijkstra(b, u) <= ClaveDijkstra(b, v)
        /\ \A w \in Insertados(a, b) : ClaveDijkstra(b, v) <= b.abierta.entrada[w][1]

OrdenAStar(a, b) ==
    \A v \in b.cerrada \ a.cerrada :
        /\ \A u \in a.cerrada : ClaveAStar(b, u) <= ClaveAStar(b, v)
        /\ \A w \in Insertados(a, b) : ClaveAStar(b, v) <= b.abierta.entrada[w][1]

\* The heuristic is a whole number of units on every vertex.
HeuristicaEntera == \A v \in Vertices : existe_vertice(v) => heuristica(v) % 2 = 0

\* C29: in Dijkstra, and in A* with a consistent integer-valued heuristic, the
\* keys f of the extracted vertices form a non-decreasing sequence, and
\* insertar never inserts a key below the key of the last extracted vertex.
C29_ClavesNoDecrecientes ==
    [][/\ OrdenDijkstra(dijkstra, dijkstra')
       /\ (astar'.cerrada # astar.cerrada /\ Consistente /\ HeuristicaEntera)
             => OrdenAStar(astar, astar')]_vars

\* A* under a consistent integer-valued heuristic that is not zero everywhere
\* has extracted three vertices whose keys are not all equal.
C29_Witness ==
    /\ Cardinality(astar.cerrada) = 3
    /\ Consistente /\ HeuristicaEntera
    /\ \E v \in Vertices : heuristica(v) > 0
    /\ \E u, v \in astar.cerrada : ClaveAStar(astar, u) < ClaveAStar(astar, v)

\* ---- the skip guards of the loops
\* What the next extraer_minimo of a run in its loop returns is a vertex that
\* is not closed, with the g recorded in g_minimo; and every extraction so
\* far was counted and closed a vertex.
GuardasOciosas(alg) ==
    /\ alg.expansiones = Cardinality(alg.cerrada)
    /\ (alg.pc = "bucle" /\ ~esta_vacia(alg.abierta)) =>
          LET r == extraer_minimo(alg.abierta).res
          IN  /\ r # <<>>
              /\ r[1] \notin alg.cerrada
              /\ r[2] = alg.g_minimo[r[1]]

\* C30: in the resolver loops of AlgoritmoDijkstra and AlgoritmoAStarConPadres
\* the two skip guards after the extraction are never taken: every extracted
\* (v, g) has v not closed and g = g_minimo[v], so the successful extractions,
\* expansiones and the closed vertices are equally many.
C30_GuardasNuncaTomadas == \A alg \in Motores : GuardasOciosas(alg)

\* A run is in its loop with a vertex still to extract while its buckets hold
\* a superseded record of a vertex that is already closed.
C30_Witness ==
    \E alg \in Motores :
        /\ alg.pc = "bucle"
        /\ ~esta_vacia(alg.abierta)
        /\ alg.expansiones >= 2
        /\ \E r \in Registros(alg.abierta) : r[1] \in alg.cerrada

\* ---- ties among equal keys
\* The place in its bucket of the current entry of a live vertex: the last
\* record appended for it with its recorded g.
PosActual(L, w) ==
    LET b == L.buckets[L.entrada[w][1]]
    IN  Maximo({0} \cup {i \in 1..Len(b) : b[i] = <<w, L.entrada[w][2]>>})

\* extraer_minimo on L returns, among the live vertices of the least key, the
\* one whose current entry was appended first.
PrimeroEnEntrar(L) ==
    LET r == extraer_minimo(L).res
        e == L.entrada
    IN  /\ r # <<>>
        /\ r[1] \in DOMAIN e
        /\ \A w \in DOMAIN e :
              /\ e[r[1]][1] <= e[w][1]
              /\ e[w][1] = e[r[1]][1] => PosActual(L, r[1]) <= PosActual(L, w)

\* The heuristic is defined and 0 on every vertex, as it is for Dijkstra.
HeuristicaNula ==
    /\ \A v \in Vertices : existe_vertice(v)
    /\ \A v \in Vertices : heuristica(v) = 0

DialExtraeMinimo ==
    (dial.pc = "bucle" /\ ~dial_esta_vacia(dial.lista)) =>
        \A r \in dial_extraer_minimo(dial.lista) :
            /\ r.res # <<>>
            /\ r.res[1] \in DOMAIN dial.lista.entrada
            /\ \A w \in DOMAIN dial.lista.entrada :
                  dial.lista.entrada[r.res[1]][1] <= dial.lista.entrada[w][1]

DialTerminado == dial.pc \in {"SOLVED", "EXHAUSTED"}

\* C32 as stated: over the Dijkstra loop on a graph with weights in 0..C,
\* every extraer_minimo of ListaAbiertaDialOptimizada(C) returns a vertex of
\* the least key, and the run has the same sequence of extracted keys and the
\* same final cost as the run over ListaAbierta.
C32_MismaSecuencia ==
    /\ DialExtraeMinimo
    /\ DialTerminado =>
          /\ dial.claves = dial.claves_abierta
          /\ dial.coste = dijkstra.coste

NoDecreciente(s) == \A i \in 1..(Len(s) - 1) : s[i] <= s[i + 1]

Menores(s, d) == SelectSeq(s, LAMBDA x : x < d)

\* C32 amended: every extraer_minimo returns a vertex of the least key; the
\* two runs end alike (both SOLVED with the same cost, or both EXHAUSTED) and
\* both extract keys in non-decreasing order; a run that finds no path gives
\* the same keys over either list, and a SOLVED run gives the same keys below
\* the cost, followed by one or more keys equal to the cost, whose number
\* depends on the list (the order among vertices of equal key differs).
C32_MismaSecuenciaSalvoEmpates ==
    /\ DialExtraeMinimo
    /\ DialTerminado =>
          /\ dial.pc = dijkstra.pc
          /\ dial.coste = dijkstra.coste
          /\ NoDecreciente(dial.claves) /\ NoDecreciente(dial.claves_abierta)
          /\ IF dial.pc = "EXHAUSTED" THEN dial.claves = dial.claves_abierta
             ELSE /\ Menores(dial.claves, dial.coste) = Menores(dial.claves_abierta, dial.coste)
                  /\ dial.claves[Len(dial.claves)] = dial.coste
                  /\ dial.claves_abierta[Len(dial.claves_abierta)] = dial.coste

\* The run over the circular list reached the destination after fewer
\* extractions than the run over ListaAbierta, both at the same cost.
C32_Witness ==
    /\ dial.pc = "SOLVED"
    /\ Len(dial.claves) < Len(dial.claves_abierta)
    /\ dial.coste = dijkstra.coste

\* ---- ListaAbiertaDialOptimizada on its own (SpecListaDial)
\* The slots of the array that hold a vertex.
Ranuras(L, v) == {i \in DOMAIN L.buckets : v \in L.buckets[i]}

\* C33: after any sequence of insertar and extraer_minimo calls on
\* ListaAbiertaDialOptimizada with keys that are not negative, every live
\* vertex is in exactly one slot, the slot f mod (C + 1) of its recorded key,
\* num_elementos is the number of live vertices, and extraer_minimo returns a
\* live vertex, never None, whenever num_elementos > 0.
C33_UnaRanuraPorVivo ==
    LET L == dial.lista IN
    /\ \A v \in DOMAIN L.entrada : Ranuras(L, v) = {L.entrada[v][1] % (L.C + 1)}
    /\ L.num_elementos = Cardinality(DOMAIN L.entrada)
    /\ L.num_elementos > 0 =>
          \A r \in dial_extraer_minimo(L) : r.res # <<>> /\ r.res[1] \in DOMAIN L.entrada
    /\ (ultimo.op = "extraer" /\ ultimo.antes.num_elementos > 0) =>
          /\ ultimo.res # <<>>
          /\ ultimo.res[1] \in DOMAIN ultimo.antes.entrada

\* extraer_minimo went round the end of the array to find a slot that was not
\* empty and returned a vertex from it, while a vertex with a key above C
\* stays live.
C33_Witness ==
    /\ ultimo.op = "extraer" /\ ultimo.res # <<>>
    /\ dial.lista.puntero < ultimo.antes.puntero
    /\ dial.lista.num_elementos > 0
    /\ \E v \in DOMAIN dial.lista.entrada : dial.lista.entrada[v][1] > dial.lista.C

\* ---- ListaCerrada on its own (SpecCerrada)
\* The vertices on the walk over the parent links from v, v included, for at
\* most k links.
RECURSIVE Ancestros(_, _, _)
Ancestros(cerrados_, v, k) ==
    IF v = None \/ k = 0 THEN {}
    ELSE {v} \cup Ancestros(cerrados_, obtener_padre(cerrados_, v), k - 1)

\* No recorded vertex is reached again by following parent links from it.
SinCiclos(cerrados_) ==
    \A v \in DOMAIN cerrados_ :
        v \notin Ancestros(cerrados_, cerrados_[v][1], Cardinality(DOMAIN cerrados_))

\* C34: after any sequence of insertar calls whose parent links hold no cycle,
\* reconstruir_camino(target) ends and returns a list that ends with target,
\* follows the recorded parent links in order (each entry is the parent of the
\* next one, which carries its recorded coste_arco), and whose first entry has
\* coste_arco = 0.
C34_CaminoDeLaCerrada ==
    (cerrados.op = "reconstruir_camino" /\ SinCiclos(cerrados.cerrados)) =>
        LET c == cerrados.camino
            d == cerrados.cerrados
        IN  /\ cerrados.pc = "devuelto"
            /\ c # <<>>
            /\ c[Len(c)][1] = cerrados.objetivo
            /\ \A i \in 2..Len(c) :
                  /\ c[i][1] \in DOMAIN d
                  /\ d[c[i][1]][1] = c[i - 1][1]
                  /\ d[c[i][1]][2] = c[i][2]
            /\ obtener_padre(d, c[1][1]) = None
            /\ c[1][2] = 0

====
